---- MODULE Spec2Model ----
(***************************************************************************)
(* Model of the financial engine of backend/app/services/calc_service.py   *)
(* (class CalculadoraFinanciera).                                          *)
(*                                                                         *)
(* Representation of Decimal values:                                       *)
(*   - money is an integer number of thousandths of a peso (1.00 = 1000),  *)
(*     so that a value with more than two decimals can be told from its    *)
(*     quantized form; quantize(PRECISION_DINERO) is a real rounding;      *)
(*   - a rate is an integer number of millionths (1% = 10000), the grain   *)
(*     of PRECISION_TASA.                                                  *)
(* Decimal addition, subtraction and multiplication are exact at these    *)
(* sizes, so integer arithmetic on the scaled values computes what the     *)
(* code computes.                                                          *)
(***************************************************************************)
EXTENDS Integers, Sequences, FiniteSets, TLC

VARIABLES
    llamada,          \* the method of CalculadoraFinanciera the caller invoked
    pc,               \* position of the running call
    retorno,          \* where generar_tabla_amortizacion returns to
    args,             \* arguments of generar_tabla_amortizacion
    tabla,            \* generar_tabla_amortizacion: rows built so far
    saldo,            \* generar_tabla_amortizacion: running balance
    total_intereses,  \* generar_tabla_amortizacion: accumulators
    total_capital,
    total_pagado,
    cuota_num,        \* generar_tabla_amortizacion: loop counter
    resultado,        \* value returned by generar_tabla_amortizacion
    datos,            \* the DatosCredito of the projection calls
    abonos,           \* generar_proyecciones_multiple: the list of abonos
    indice,           \* generar_proyecciones_multiple: i of the for loop
    resultado_actual, \* calcular_proyeccion: the schedule without abono
    proyecciones,     \* generar_proyecciones_multiple: results so far
    ahorro_total,     \* argument of a direct call of calcular_honorarios
    honorarios,       \* value returned by that call
    error,            \* exception raised to the caller, if any
    argumentos,       \* arguments of a direct call of another method
    devuelto,         \* value returned by that call
    calculadora,      \* attributes of the CalculadoraFinanciera that threads share
    hilos,            \* each thread's call: method, arguments, position, value returned
    marcos,           \* each thread's frame: the locals of its running call
    analisis,         \* the AnalisisHipotecario row the service calls work on
    propuestas,       \* the PropuestaAhorro rows of that analysis
    respuesta,        \* what the last service call returned
    historia          \* record of the calls made, for the properties

varsTabla == <<args, tabla, saldo, total_intereses, total_capital,
               total_pagado, cuota_num>>

varsProyeccion == <<datos, abonos, indice, resultado_actual, proyecciones>>

\* State of the direct calls of the other methods and of the threads.
varsServicio == <<analisis, propuestas, respuesta, historia>>

varsExtra == <<argumentos, devuelto, calculadora, hilos, marcos, varsServicio>>

vars == <<llamada, pc, retorno, varsTabla, resultado, varsProyeccion,
          ahorro_total, honorarios, error, varsExtra>>

\* None, for error; and for a variable that holds a record once it is set.
\* A variable that holds a number holds 0 until it is set.
NULL == "None"

Ninguno == [ ninguno |-> TRUE ]

\* PRECISION_DINERO = Decimal("0.01"), in thousandths.
PRECISION_DINERO == 10

\* PRECISION_TASA = Decimal("0.000001"), in millionths.
PRECISION_TASA == 1

\* Default of the parameter max_cuotas of generar_tabla_amortizacion.
max_cuotas == 600

(***************************************************************************)
(* Decimal helpers                                                         *)
(***************************************************************************)

\* Rounding of q + r/d (0 <= r < d) to an integer with ROUND_HALF_EVEN, the
\* rounding of the default decimal context, which quantize() uses when it is
\* given no rounding.
RedondeoCociente(q, r, d) ==
    IF 2 * r < d THEN q
    ELSE IF 2 * r > d THEN q + 1
    ELSE IF q % 2 = 0 THEN q ELSE q + 1

\* n / d rounded half-even. \div and % are the floor division and its
\* remainder (0 <= n % d < d), also for a negative n.
RedondeoMitadPar(n, d) == RedondeoCociente(n \div d, n % d, d)

\* Rounding of q + r/d (0 <= r < d) to an integer with ROUND_HALF_UP: a tie
\* goes away from zero.
RedondeoMitadArriba(q, r, d) ==
    IF 2 * r > d THEN q + 1
    ELSE IF 2 * r < d THEN q
    ELSE IF q >= 0 THEN q + 1 ELSE q

\* (x * t) / 10^7 rounded half-even, computed in two halves so that the
\* product of a balance and a rate never leaves the 32-bit integers:
\* x = xh * 10^4 + xl and xh * t = ah * 10^3 + al give
\* x * t = ah * 10^7 + (al * 10^4 + xl * t).
ProductoRedondeado(x, t) ==
    LET xh    == x \div 10000
        xl    == x % 10000
        ah    == (xh * t) \div 1000
        al    == (xh * t) % 1000
        resto == al * 10000 + xl * t
    IN  RedondeoCociente(ah + (resto \div 10000000), resto % 10000000, 10000000)

\* x.quantize(self._precision_dinero) for a money value x (in thousandths).
CuantizarDinero(x) == PRECISION_DINERO * RedondeoMitadPar(x, PRECISION_DINERO)

(***************************************************************************)
(* calcular_cuota_fija                                                     *)
(***************************************************************************)

RECURSIVE MCD(_, _)
MCD(a, b) == IF b = 0 THEN a ELSE MCD(b, a % b)

RECURSIVE Potencia(_, _)
Potencia(b, n) == IF n = 0 THEN 1 ELSE b * Potencia(b, n - 1)

\* factor = Decimal(str((1 + float(r)) ** n)) as the fraction
\* FactorNum / FactorDen, with r = rn/rd in lowest terms. The float power
\* and its str() are exact for the rates and terms of CuotasFijas (1 + r a
\* small dyadic fraction, n small), where factor = (rd + rn)^n / rd^n.
FactorNum(tasa_mensual, n) ==
    LET g == MCD(tasa_mensual, 1000000)
    IN  Potencia((1000000 + tasa_mensual) \div g, n)

FactorDen(tasa_mensual, n) ==
    LET g == MCD(tasa_mensual, 1000000)
    IN  Potencia(1000000 \div g, n)

\* cuota = numerador / denominador with numerador = capital * r * factor and
\* denominador = factor - 1, as one fraction CuotaNum / CuotaDen in
\* thousandths of a peso.
CuotaNum(capital, tasa_mensual, n) ==
    LET g == MCD(tasa_mensual, 1000000)
    IN  capital * (tasa_mensual \div g) * FactorNum(tasa_mensual, n)

CuotaDen(tasa_mensual, n) ==
    LET g == MCD(tasa_mensual, 1000000)
    IN  (1000000 \div g) * (FactorNum(tasa_mensual, n) - FactorDen(tasa_mensual, n))

\* calcular_cuota_fija: 0 for no capital or no term; capital / num_cuotas
\* quantized with the default rounding (half-even) for a rate <= 0; the
\* formula quantized with ROUND_HALF_UP otherwise.
calcular_cuota_fija(capital, tasa_mensual, num_cuotas) ==
    IF capital <= 0 \/ num_cuotas <= 0 THEN 0
    ELSE IF tasa_mensual <= 0
    THEN PRECISION_DINERO * RedondeoMitadPar(capital, PRECISION_DINERO * num_cuotas)
    ELSE LET num == CuotaNum(capital, tasa_mensual, num_cuotas)
             den == PRECISION_DINERO * CuotaDen(tasa_mensual, num_cuotas)
         IN  PRECISION_DINERO * RedondeoMitadArriba(num \div den, num % den, den)

(***************************************************************************)
(* generar_tabla_amortizacion: the body of the while loop                  *)
(***************************************************************************)

\* interes_mes = (saldo * tasa_mensual).quantize(self._precision_dinero)
\* saldo * tasa_mensual is in units of 10^-9; a cent is 10^7 of them.
InteresMes(s, tasa) == PRECISION_DINERO * ProductoRedondeado(s, tasa)

\* Mutant: the whole installment goes to capital.
AbonoCapitalBaseSinInteres(cuota_fija, interes_mes) == cuota_fija

\* abono_capital_base = cuota_fija - interes_mes
AbonoCapitalBase(cuota_fija, interes_mes) == cuota_fija - interes_mes

\* if saldo <= abono_capital_base + abono_extra
EsUltimaCuota(s, abono_capital_base, abono_extra) ==
    s <= abono_capital_base + abono_extra

\* Mutant: the last installment keeps the base principal instead of the balance.
AbonoCapitalRealSinAjuste(ultima, s, abono_capital_base) == abono_capital_base

\* Mutant: the abono is charged in the last installment too.
AbonoExtraRealSiempre(ultima, abono_extra) == abono_extra

\* Mutant: the last installment is charged in full.
CuotaRealSinAjuste(ultima, s, interes_mes, cuota_fija, abono_extra) ==
    cuota_fija + abono_extra

\* the two branches of the if: abono_capital_real, abono_extra_real, cuota_real
AbonoCapitalReal(ultima, s, abono_capital_base) ==
    IF ultima THEN s ELSE abono_capital_base

AbonoExtraReal(ultima, abono_extra) ==
    IF ultima THEN 0 ELSE abono_extra

CuotaReal(ultima, s, interes_mes, cuota_fija, abono_extra) ==
    IF ultima THEN interes_mes + s ELSE cuota_fija + abono_extra

\* Mutant: the abono is added to the balance instead of taken off it.
SaldoSiguienteSumaAbono(s, abono_capital_real, abono_extra_real) ==
    LET nuevo == s - abono_capital_real + abono_extra_real
    IN  IF nuevo < 0 THEN 0 ELSE nuevo

\* saldo = saldo - abono_capital_real - abono_extra_real; if saldo < 0: saldo = 0
SaldoSiguiente(s, abono_capital_real, abono_extra_real) ==
    LET nuevo == s - abono_capital_real - abono_extra_real
    IN  IF nuevo < 0 THEN 0 ELSE nuevo

\* The FilaAmortizacion appended by one iteration that starts with balance s.
Fila(num, s, a) ==
    LET interes_mes        == InteresMes(s, a.tasa_mensual)
        abono_capital_base == AbonoCapitalBase(a.cuota_fija, interes_mes)
        ultima             == EsUltimaCuota(s, abono_capital_base, a.abono_extra)
        abono_capital_real == AbonoCapitalReal(ultima, s, abono_capital_base)
        abono_extra_real   == AbonoExtraReal(ultima, a.abono_extra)
    IN  [ numero_cuota  |-> num,
          saldo_inicial |-> s,
          cuota_total   |-> CuotaReal(ultima, s, interes_mes, a.cuota_fija, a.abono_extra),
          interes       |-> interes_mes,
          abono_capital |-> abono_capital_real,
          abono_extra   |-> abono_extra_real,
          saldo_final   |-> SaldoSiguiente(s, abono_capital_real, abono_extra_real) ]

\* Mutant: the loop stops at a balance of one peso instead of one centavo.
CondicionBucleUnPeso(s, num) == s > 1000 /\ num < max_cuotas

\* Mutant: the cap is compared with <=, one iteration too many.
CondicionBucleInclusive(s, num) == s > PRECISION_DINERO /\ num <= max_cuotas

\* while saldo > Decimal("0.01") and cuota_num < max_cuotas
CondicionBucle(s, num) == s > PRECISION_DINERO /\ num < max_cuotas

\* Mutant: the number of installments is counted from a loop counter taken
\* to start at 0.
ResultadoAmortizacionBaseCero ==
    [ cuotas_totales  |-> cuota_num + 1,
      total_pagado    |-> CuantizarDinero(total_pagado),
      total_intereses |-> CuantizarDinero(total_intereses),
      total_capital   |-> CuantizarDinero(total_capital),
      tabla           |-> tabla ]

\* return ResultadoAmortizacion(...)
ResultadoAmortizacion ==
    [ cuotas_totales  |-> cuota_num,
      total_pagado    |-> CuantizarDinero(total_pagado),
      total_intereses |-> CuantizarDinero(total_intereses),
      total_capital   |-> CuantizarDinero(total_capital),
      tabla           |-> tabla ]

(***************************************************************************)
(* Rate conversion, fees and requirements                                  *)
(***************************************************************************)

\* Natural numbers of any size, as sequences of digits in base 1000, least
\* significant first: the powers below do not fit a machine integer.
Digito(a, i) == IF i <= Len(a) THEN a[i] ELSE 0

RECURSIVE ANatural(_)
ANatural(n) == IF n < 1000 THEN <<n>> ELSE <<n % 1000>> \o ANatural(n \div 1000)

RECURSIVE AEntero(_, _)
AEntero(a, i) == IF i > Len(a) THEN 0 ELSE a[i] + 1000 * AEntero(a, i + 1)

RECURSIVE Coeficiente(_, _, _, _)
Coeficiente(a, b, k, i) ==
    IF i > Len(a) \/ i > k THEN 0
    ELSE a[i] * Digito(b, k + 1 - i) + Coeficiente(a, b, k, i + 1)

RECURSIVE Acarrear(_, _, _)
Acarrear(c, i, acarreo) ==
    IF i > Len(c) THEN (IF acarreo = 0 THEN <<>> ELSE <<acarreo>>)
    ELSE <<(c[i] + acarreo) % 1000>> \o Acarrear(c, i + 1, (c[i] + acarreo) \div 1000)

Producto(a, b) ==
    Acarrear([ k \in 1..(Len(a) + Len(b) - 1) |-> Coeficiente(a, b, k, 1) ], 1, 0)

\* a * 1000^n
Desplazar(a, n) == [ i \in 1..n |-> 0 ] \o a

\* a <= b, comparing the digits from position i down.
RECURSIVE MenorIgual(_, _, _)
MenorIgual(a, b, i) ==
    IF i = 0 THEN TRUE
    ELSE IF Digito(a, i) # Digito(b, i) THEN Digito(a, i) < Digito(b, i)
    ELSE MenorIgual(a, b, i - 1)

\* a ** 12
Potencia12(a) ==
    LET a2 == Producto(a, a)
        a3 == Producto(a2, a)
        a6 == Producto(a3, a3)
    IN  Producto(a6, a6)

\* The largest m in lo..hi whose half-unit below, 1 + m - 0.0000005, has a
\* twelfth power not above the base n (n is base * 2^12 * 10^66).
RECURSIVE BuscarRaiz(_, _, _)
BuscarRaiz(n, lo, hi) ==
    IF lo >= hi THEN lo
    ELSE LET mid == (lo + hi + 1) \div 2
             p   == Potencia12(ANatural(2 * (1000000 + mid) - 1))
         IN  IF MenorIgual(p, n, Len(p) + Len(n))
             THEN BuscarRaiz(n, mid, hi)
             ELSE BuscarRaiz(n, lo, mid - 1)

\* The twelfth root of 1 + tasa_ea rounded to the nearest millionth (rates in
\* millionths); the root of a base that is not 1 is never half way between
\* two millionths.
RaizDoceavaCalculada(tasa_ea) ==
    BuscarRaiz(Desplazar(Producto(ANatural(1000000 + tasa_ea), <<96, 4>>), 22),
               0, 1048575)

\* Decimal(str(float(base) ** float(exponente))) - uno, quantized to
\* PRECISION_TASA.  The floating-point power of the source gives the rounded
\* twelfth root for every rate from 0.000001 to 0.300000; the roots of the
\* rates of the loans of the model are written out, the others are computed.
RaizDoceava(tasa_ea) ==
    CASE tasa_ea = 12066  -> 1000     \* 1.2066%  EA -> 0.1000% monthly
      [] tasa_ea = 47100  -> 3843     \* 4.71%    EA -> 0.3843% monthly
      [] tasa_ea = 61678  -> 5000     \* 6.1678%  EA -> 0.5000% monthly
      [] tasa_ea = 126825 -> 10000    \* 12.6825% EA -> 1.0000% monthly
      [] OTHER -> RaizDoceavaCalculada(tasa_ea)

\* Mutant: no guard for tasa_ea <= 0; the formula gives 0 for a rate of 0 and
\* a negative monthly rate for a negative one (-1% EA -> -0.0837% monthly).
tasa_ea_a_mensual_sin_guarda(tasa_ea) ==
    IF tasa_ea = 0 THEN 0
    ELSE IF tasa_ea < 0 THEN 0 - 837
    ELSE RaizDoceava(tasa_ea)

\* tasa_ea_a_mensual
tasa_ea_a_mensual(tasa_ea) ==
    IF tasa_ea <= 0 THEN 0 ELSE RaizDoceava(tasa_ea)

\* Mutant: the annual rate is taken to be the nominal one, twelve times the
\* monthly rate.
tasa_mensual_a_ea_nominal(tasa_mensual) ==
    IF tasa_mensual <= 0 THEN 0 ELSE 12 * tasa_mensual

\* tasa_mensual_a_ea: (1 + rm) ** 12 - 1 quantized to PRECISION_TASA, the
\* default rounding of quantize being half-even.
tasa_mensual_a_ea(tasa_mensual) ==
    IF tasa_mensual <= 0 THEN 0
    ELSE LET ea      == Potencia12(ANatural(1000000 + tasa_mensual))
             entero  == AEntero(ea, 23)
             mitad   == Digito(ea, 22)
             resto   == \E i \in 1..21 : Digito(ea, i) # 0
             arriba  == \/ mitad > 500
                        \/ mitad = 500 /\ (resto \/ entero % 2 = 1)
         IN  entero + (IF arriba THEN 1 ELSE 0) - 1000000

\* PORCENTAJE_HONORARIOS = Decimal("0.03"), in hundredths.
PORCENTAJE_HONORARIOS == 3

\* PORCENTAJE_IVA = Decimal("0.19"), in hundredths.
PORCENTAJE_IVA == 19

\* TARIFA_MINIMA_HONORARIOS = Decimal("500000"), in centavos.
TARIFA_MINIMA_HONORARIOS == 50000000

\* PORCENTAJE_INGRESO_MINIMO = Decimal("0.30"), in hundredths.
PORCENTAJE_INGRESO_MINIMO == 30

\* Mutant: the fee is 3% of the savings, without the minimum.
calcular_honorarios_sin_minimo(ahorro) ==
    LET q == ahorro \div 100
        r == ahorro % 100
    IN  RedondeoCociente(PORCENTAJE_HONORARIOS * q + ((PORCENTAJE_HONORARIOS * r) \div 100),
                         (PORCENTAJE_HONORARIOS * r) % 100, 100)

\* calcular_honorarios, on an amount in centavos and returning centavos (a
\* fee above the minimum needs savings that do not fit in thousandths).
\* honorarios = ahorro_total * PORCENTAJE_HONORARIOS is kept exact as
\* entero + resto/100 centavos; max() picks it when it is above the minimum,
\* and quantize rounds the pick half-even.
calcular_honorarios(ahorro) ==
    LET q      == ahorro \div 100
        r      == ahorro % 100
        entero == PORCENTAJE_HONORARIOS * q + ((PORCENTAJE_HONORARIOS * r) \div 100)
        resto  == (PORCENTAJE_HONORARIOS * r) % 100
        mayor  == \/ entero > TARIFA_MINIMA_HONORARIOS
                  \/ entero = TARIFA_MINIMA_HONORARIOS /\ resto > 0
    IN  IF mayor THEN RedondeoCociente(entero, resto, 100)
        ELSE TARIFA_MINIMA_HONORARIOS

\* calcular_honorarios_con_iva, centavos to centavos:
\* (honorarios * (1 + PORCENTAJE_IVA)).quantize(self._precision_dinero)
calcular_honorarios_con_iva(h) ==
    LET q == h \div 100
        r == h % 100
        f == 100 + PORCENTAJE_IVA
    IN  RedondeoCociente(f * q + ((f * r) \div 100), (f * r) % 100, 100)

\* Mutant: the installment is multiplied by the ratio instead of divided.
calcular_ingreso_minimo_producto(cuota_mensual) ==
    IF PORCENTAJE_INGRESO_MINIMO <= 0 THEN 0
    ELSE PRECISION_DINERO *
         RedondeoMitadPar(cuota_mensual * PORCENTAJE_INGRESO_MINIMO, 1000)

\* calcular_ingreso_minimo, thousandths to thousandths:
\* cuota_mensual / PORCENTAJE_INGRESO_MINIMO, quantized to the centavo.
calcular_ingreso_minimo(cuota_mensual) ==
    IF PORCENTAJE_INGRESO_MINIMO <= 0 THEN 0
    ELSE PRECISION_DINERO *
         RedondeoMitadPar(cuota_mensual * 10, PORCENTAJE_INGRESO_MINIMO)

\* Mutant: the months are not reduced to what is left over the whole years.
desde_meses_sin_resto(total_meses) ==
    [ anios |-> total_meses \div 12, meses |-> total_meses ]

\* TiempoAhorro.desde_meses
desde_meses(total_meses) ==
    [ anios |-> total_meses \div 12, meses |-> total_meses % 12 ]

\* TiempoAhorro.total_meses
total_meses(t) == (t.anios * 12) + t.meses

\* (total_pagado / valor_prestado_inicial).quantize(Decimal("0.01")), in
\* hundredths, for a divisor other than 0.
VecesPagado(total, prestado) ==
    IF prestado > 0 THEN RedondeoMitadPar(total * 100, prestado)
    ELSE RedondeoMitadPar((0 - total) * 100, 0 - prestado)

\* The exception of the Decimal division by valor_prestado_inicial = 0.
ErrorDivision(total, prestado) ==
    IF prestado # 0 THEN NULL
    ELSE IF total = 0 THEN "InvalidOperation" ELSE "DivisionByZero"

\* nombres[i] if i < len(nombres) else f"Opcion {i + 1}" (i counts from 0)
nombres ==
    << "1a Eleccion", "2a Eleccion", "3a Eleccion", "4a Eleccion", "5a Eleccion" >>

\* Mutant: the name past the end of nombres is numbered from 0.
NombreOpcionBaseCero(i) ==
    IF i < Len(nombres) THEN nombres[i + 1] ELSE "Opcion " \o ToString(i)

NombreOpcion(i) ==
    IF i < Len(nombres) THEN nombres[i + 1] ELSE "Opcion " \o ToString(i + 1)

\* Mutants: the two schedules are subtracted the wrong way round.
CuotasReducidasInvertido(r_actual, r_con_abono) ==
    r_con_abono.cuotas_totales - r_actual.cuotas_totales

AhorroInteresesInvertido(r_actual, r_con_abono) ==
    r_con_abono.total_intereses - r_actual.total_intereses

\* cuotas_reducidas = resultado_actual.cuotas_totales - resultado_con_abono.cuotas_totales
CuotasReducidas(r_actual, r_con_abono) ==
    r_actual.cuotas_totales - r_con_abono.cuotas_totales

\* ahorro_intereses = resultado_actual.total_intereses - resultado_con_abono.total_intereses
AhorroIntereses(r_actual, r_con_abono) ==
    r_actual.total_intereses - r_con_abono.total_intereses

\* Mutant: the installments saved are counted from the remaining term the
\* statement gives, not from the schedule without abono.
ResultadoProyeccionSegunPlazo(d, abono_extra, numero_opcion, nombre_opcion, r_actual, r_con_abono) ==
    LET cuotas_reducidas == d.cuotas_pendientes - r_con_abono.cuotas_totales
        ahorro_intereses == AhorroIntereses(r_actual, r_con_abono)
        nueva_cuota      == d.valor_cuota_actual + abono_extra
        h                == calcular_honorarios(ahorro_intereses \div PRECISION_DINERO)
    IN  [ numero_opcion            |-> numero_opcion,
          nombre_opcion            |-> nombre_opcion,
          abono_adicional          |-> abono_extra,
          cuotas_nuevas            |-> r_con_abono.cuotas_totales,
          tiempo_restante          |-> desde_meses(r_con_abono.cuotas_totales),
          cuotas_reducidas         |-> cuotas_reducidas,
          tiempo_ahorrado          |-> desde_meses(cuotas_reducidas),
          nuevo_valor_cuota        |-> nueva_cuota,
          total_por_pagar          |-> r_con_abono.total_pagado,
          valor_ahorrado_intereses |-> ahorro_intereses,
          veces_pagado             |-> VecesPagado(r_con_abono.total_pagado,
                                                   d.valor_prestado_inicial),
          honorarios               |-> PRECISION_DINERO * h,
          honorarios_con_iva       |-> PRECISION_DINERO * calcular_honorarios_con_iva(h),
          ingreso_minimo_requerido |-> calcular_ingreso_minimo(nueva_cuota) ]

\* The part of calcular_proyeccion after the two schedules: the
\* ResultadoProyeccion built from resultado_actual and resultado_con_abono.
ResultadoProyeccion(d, abono_extra, numero_opcion, nombre_opcion, r_actual, r_con_abono) ==
    LET cuotas_reducidas == CuotasReducidas(r_actual, r_con_abono)
        ahorro_intereses == AhorroIntereses(r_actual, r_con_abono)
        nueva_cuota      == d.valor_cuota_actual + abono_extra
        h                == calcular_honorarios(ahorro_intereses \div PRECISION_DINERO)
    IN  [ numero_opcion            |-> numero_opcion,
          nombre_opcion            |-> nombre_opcion,
          abono_adicional          |-> abono_extra,
          cuotas_nuevas            |-> r_con_abono.cuotas_totales,
          tiempo_restante          |-> desde_meses(r_con_abono.cuotas_totales),
          cuotas_reducidas         |-> cuotas_reducidas,
          tiempo_ahorrado          |-> desde_meses(cuotas_reducidas),
          nuevo_valor_cuota        |-> nueva_cuota,
          total_por_pagar          |-> r_con_abono.total_pagado,
          valor_ahorrado_intereses |-> ahorro_intereses,
          veces_pagado             |-> VecesPagado(r_con_abono.total_pagado,
                                                   d.valor_prestado_inicial),
          honorarios               |-> PRECISION_DINERO * h,
          honorarios_con_iva       |-> PRECISION_DINERO * calcular_honorarios_con_iva(h),
          ingreso_minimo_requerido |-> calcular_ingreso_minimo(nueva_cuota) ]

(***************************************************************************)
(* calcular_resumen_credito                                                *)
(***************************************************************************)

\* porcentaje_ajuste, in ten-thousandths: the quotient quantized to
\* Decimal("0.0001") when valor_prestado_inicial > 0, else 0.
PorcentajeAjuste(ajuste_inflacion, valor_prestado_inicial) ==
    IF valor_prestado_inicial > 0
    THEN RedondeoMitadPar(ajuste_inflacion * 10000, valor_prestado_inicial)
    ELSE 0

\* Mutant: the estimate is not floored at 0.
TotalInteresesSegurosSinPiso(monto_real_pagado_banco, capital_amortizado_estimado) ==
    monto_real_pagado_banco - capital_amortizado_estimado

\* total_intereses_seguros = monto_real_pagado_banco - capital_amortizado_estimado,
\* set to 0 when negative.
TotalInteresesSeguros(monto_real_pagado_banco, capital_amortizado_estimado) ==
    LET total == monto_real_pagado_banco - capital_amortizado_estimado
    IN  IF total < 0 THEN 0 ELSE total

\* calcular_resumen_credito(datos, cuotas_pagadas, cuotas_pactadas): the
\* ResumenCredito returned. sistema_amortizacion is not read.
calcular_resumen_credito(d, cuotas_pagadas, cuotas_pactadas) ==
    LET total_pagado_fecha      == d.valor_cuota_actual * cuotas_pagadas
        total_frech_recibido    == d.beneficio_frech * cuotas_pagadas
        monto_real_pagado_banco == total_pagado_fecha + total_frech_recibido
        ajuste_inflacion        == d.saldo_capital - d.valor_prestado_inicial
        capital_amortizado_estimado == d.valor_prestado_inicial - d.saldo_capital
    IN  [ valor_prestado          |-> d.valor_prestado_inicial,
          cuotas_pactadas         |-> cuotas_pactadas,
          cuotas_pagadas          |-> cuotas_pagadas,
          cuotas_por_pagar        |-> cuotas_pactadas - cuotas_pagadas,
          cuota_actual            |-> d.valor_cuota_actual,
          beneficio_frech         |-> d.beneficio_frech,
          cuota_completa          |-> d.valor_cuota_actual + d.beneficio_frech,
          total_pagado_fecha      |-> total_pagado_fecha,
          total_frech_recibido    |-> total_frech_recibido,
          monto_real_pagado_banco |-> monto_real_pagado_banco,
          saldo_actual            |-> d.saldo_capital,
          ajuste_inflacion_pesos  |-> ajuste_inflacion,
          porcentaje_ajuste       |-> PorcentajeAjuste(ajuste_inflacion,
                                                       d.valor_prestado_inicial),
          total_intereses_seguros |->
              TotalInteresesSeguros(monto_real_pagado_banco,
                                    capital_amortizado_estimado) ]

(***************************************************************************)
(* Inputs                                                                  *)
(***************************************************************************)

\* Arguments of a direct call of generar_tabla_amortizacion: balances,
\* monthly rates, installments and abonos, valid and invalid, with two
\* decimals and with three. The abonos go up to MaxAbonoExtra tens of pesos.
MaxAbonoExtra == 2

Saldos  == {0 - 1000, 0, 5, 60000, 100000, 100004, 100010}
Tasas   == {0, 1000, 10000}
Cuotas  == {0 - 1000, 0, 100, 110, 1000, 1010, 30005, 50000}
Abonos  == {0 - 5} \cup { 10000 * k : k \in 0..MaxAbonoExtra }

EntradasTabla ==
    [ saldo_inicial : Saldos, tasa_mensual : Tasas,
      cuota_fija : Cuotas, abono_extra : Abonos ]

\* Loans and lists of abonos of a call of generar_proyecciones_multiple; a
\* list holds up to MaxAbonos abonos.
MaxAbonos == 2

Creditos ==
    [ saldo_capital          : {60000, 100000},
      valor_cuota_actual     : {1000, 12000, 30000},
      cuotas_pendientes      : {12},
      tasa_interes_ea        : {0, 126825},
      valor_prestado_inicial : {100000} ]
    \cup
    { [ saldo_capital |-> 100000, valor_cuota_actual |-> 30000,
        cuotas_pendientes |-> 12, tasa_interes_ea |-> 47100,
        valor_prestado_inicial |-> 0 ] }
    \cup
    \* a negative balance, a negative installment, a negative amount lent
    { [ saldo_capital |-> 0 - 50000, valor_cuota_actual |-> 30000,
        cuotas_pendientes |-> 12, tasa_interes_ea |-> 126825,
        valor_prestado_inicial |-> 100000 ],
      [ saldo_capital |-> 60000, valor_cuota_actual |-> 0 - 1000,
        cuotas_pendientes |-> 12, tasa_interes_ea |-> 0,
        valor_prestado_inicial |-> 100000 ],
      [ saldo_capital |-> 60000, valor_cuota_actual |-> 30000,
        cuotas_pendientes |-> 12, tasa_interes_ea |-> 126825,
        valor_prestado_inicial |-> 0 - 100000 ] }
    \cup
    \* a negative annual rate
    { [ saldo_capital |-> 60000, valor_cuota_actual |-> 12000,
        cuotas_pendientes |-> 12, tasa_interes_ea |-> 0 - 10000,
        valor_prestado_inicial |-> 100000 ] }
    \cup
    \* an installment of a thousandth of a peso on a balance below a centavo
    { [ saldo_capital |-> 5, valor_cuota_actual |-> 1,
        cuotas_pendientes |-> 12, tasa_interes_ea |-> 0,
        valor_prestado_inicial |-> 100000 ] }

AbonosExtra == {0, 10000, 20000}

ListasAbonos == UNION { [1..n -> AbonosExtra] : n \in 0..MaxAbonos }

\* Lists longer than nombres, with repeated abonos, for loans whose schedules
\* are short.
ListasLargas ==
    { << 10000, 0, 10000, 20000, 20000, 0 >>,
      << 0, 20000, 20000, 10000, 0, 10000, 20000 >>,
      << 20000, 10000, 0, 0, 10000, 20000 >> }

CreditosBreves ==
    [ saldo_capital          : {60000},
      valor_cuota_actual     : {12000, 30000},
      cuotas_pendientes      : {12},
      tasa_interes_ea        : {0, 126825},
      valor_prestado_inicial : {100000} ]

\* Loans that differ only in the remaining term the statement gives, some
\* paid off by a single installment.
CreditosPlazo ==
    [ saldo_capital          : {20000, 60000},
      valor_cuota_actual     : {30000},
      cuotas_pendientes      : {1, 2, 3, 240},
      tasa_interes_ea        : {126825},
      valor_prestado_inicial : {100000} ]

\* The (datos, abonos) of a call of generar_proyecciones_multiple.
EntradasMultiple ==
    (Creditos \X ListasAbonos) \cup (CreditosBreves \X ListasLargas)
        \cup (CreditosPlazo \X ListasAbonos)

\* Arguments of a direct call of calcular_honorarios, in centavos.
Ahorros ==
    {0 - 500, 0, 10000, 1666666650, 1666666667, 1666668350, 1666668351}
    \cup { 1666666600 + k : k \in 0..100 }

\* Annual rates (in millionths) for the rate conversions: the smallest ones,
\* a grid up to 30 %, the rates of the loans, and a negative one.
TasasAnuales ==
    (0..30) \cup { 2500 * k : k \in 1..120 }
            \cup { 0 - 10000, 12066, 47100, 61678, 126825, 299999 }

\* Arguments of a direct call of calcular_cuota_fija: capitals (thousandths),
\* monthly rates (millionths) and terms, valid and invalid.
CuotasFijas ==
    [ capital      : {0 - 1000, 0, 30, 50, 100000, 100010, 100030},
      tasa_mensual : {0 - 500000, 0, 250000, 500000, 1000000},
      num_cuotas   : {0 - 1, 0, 1, 2, 3, 4} ]

\* Arguments of a direct call of calcular_resumen_credito: loans in pesos and
\* in UVR, with and without FRECH subsidy, whose balance is below and above
\* the amount lent, and numbers of installments paid.
Resumenes ==
    [ datos : [ saldo_capital          : {0, 80000, 120000},
                valor_cuota_actual     : {12000, 30000},
                valor_prestado_inicial : {0, 30000, 100000},
                beneficio_frech        : {0, 5000},
                sistema_amortizacion   : {"PESOS", "UVR"} ],
      cuotas_pagadas  : {0 - 1, 0, 1, 3},
      cuotas_pactadas : {12} ]

\* Arguments of a direct call of calcular_ingreso_minimo, in thousandths:
\* the amounts up to four centavos, and larger and negative ones.
CuotasMensuales ==
    (0..40) \cup {0 - 1000, 1005, 1015, 30000, 600000}

\* The service calls made on the analysis in one behaviour.
MaxLlamadas == 3

\* Threads that call one CalculadoraFinanciera at the same time.
MaxHilos == 2

Hilos == 1..MaxHilos

\* The DatosCredito the threads share.
CreditosCompartidos ==
    [ saldo_capital          : {60000},
      valor_cuota_actual     : {30000},
      cuotas_pendientes      : {12},
      tasa_interes_ea        : {0, 126825},
      valor_prestado_inicial : {100000},
      beneficio_frech        : {5000},
      sistema_amortizacion   : {"UVR"} ]

\* The call a thread makes: the method and its arguments other than datos.
LlamadasHilo ==
    { [ metodo  |-> "generar_tabla_amortizacion",
        entrada |-> [ saldo_inicial |-> 100010, tasa_mensual |-> 10000,
                      cuota_fija |-> 50000, abono_extra |-> 0 ] ],
      [ metodo  |-> "calcular_proyeccion",
        entrada |-> [ abono_extra |-> 10000, numero_opcion |-> 1,
                      nombre_opcion |-> "Opcion" ] ],
      [ metodo  |-> "generar_proyecciones_multiple",
        entrada |-> [ abonos |-> << 20000 >> ] ],
      [ metodo  |-> "calcular_resumen_credito",
        entrada |-> [ cuotas_pagadas |-> 3, cuotas_pactadas |-> 12 ] ] }

(***************************************************************************)
(* Actions                                                                 *)
(***************************************************************************)

SinProyeccion ==
    /\ datos = Ninguno
    /\ abonos = <<>>
    /\ indice = 0
    /\ resultado_actual = Ninguno
    /\ proyecciones = <<>>

SinTabla ==
    /\ args = Ninguno
    /\ tabla = <<>>
    /\ saldo = 0
    /\ total_intereses = 0
    /\ total_capital = 0
    /\ total_pagado = 0
    /\ cuota_num = 0

\* CalculadoraFinanciera(): __init__ sets the two precisions.
NuevaCalculadora ==
    [ _precision_dinero |-> PRECISION_DINERO, _precision_tasa |-> PRECISION_TASA ]

\* No service call: the rows of the database play no part.
SinServicio ==
    /\ analisis = Ninguno
    /\ propuestas = <<>>
    /\ respuesta = Ninguno
    /\ historia = Ninguno

SinExtra ==
    /\ argumentos = Ninguno
    /\ devuelto = Ninguno
    /\ calculadora = NuevaCalculadora
    /\ hilos = <<>>
    /\ marcos = <<>>
    /\ SinServicio

\* A direct call of generar_tabla_amortizacion(a): the locals before the loop.
InitTabla ==
    /\ llamada = "generar_tabla_amortizacion"
    /\ pc = "tabla"
    /\ retorno = "done"
    /\ \E a \in EntradasTabla :
          /\ args = a
          /\ saldo = a.saldo_inicial
    /\ tabla = <<>>
    /\ total_intereses = 0
    /\ total_capital = 0
    /\ total_pagado = 0
    /\ cuota_num = 0
    /\ resultado = Ninguno
    /\ SinProyeccion
    /\ ahorro_total = 0
    /\ honorarios = 0
    /\ error = NULL
    /\ SinExtra

\* Mutant: the accumulator of the payments outlives the call (as an attribute
\* of the instance would) and is not set to 0 on entry.
LlamarTablaSinReinicio(a, vuelta) ==
    /\ pc' = "tabla"
    /\ retorno' = vuelta
    /\ args' = a
    /\ tabla' = <<>>
    /\ saldo' = a.saldo_inicial
    /\ total_intereses' = 0
    /\ total_capital' = 0
    /\ total_pagado' = total_pagado
    /\ cuota_num' = 0

\* A call of generar_tabla_amortizacion(a) made by calcular_proyeccion.
LlamarTabla(a, vuelta) ==
    /\ pc' = "tabla"
    /\ retorno' = vuelta
    /\ args' = a
    /\ tabla' = <<>>
    /\ saldo' = a.saldo_inicial
    /\ total_intereses' = 0
    /\ total_capital' = 0
    /\ total_pagado' = 0
    /\ cuota_num' = 0

\* One iteration of the while loop.
Iterar ==
    /\ pc = "tabla"
    /\ CondicionBucle(saldo, cuota_num)
    /\ LET fila == Fila(cuota_num + 1, saldo, args)
       IN  /\ cuota_num' = cuota_num + 1
           /\ saldo' = fila.saldo_final
           /\ total_intereses' = total_intereses + fila.interes
           /\ total_capital' = total_capital + fila.abono_capital + fila.abono_extra
           /\ total_pagado' = total_pagado + fila.cuota_total
           /\ tabla' = Append(tabla, fila)
    /\ UNCHANGED <<llamada, pc, retorno, args, resultado, varsProyeccion,
                   ahorro_total, honorarios, error>>
    /\ UNCHANGED varsExtra

\* The loop condition is false: generar_tabla_amortizacion returns.
Retornar ==
    /\ pc = "tabla"
    /\ ~CondicionBucle(saldo, cuota_num)
    /\ resultado' = ResultadoAmortizacion
    /\ pc' = retorno
    /\ UNCHANGED <<llamada, retorno, varsTabla, varsProyeccion,
                   ahorro_total, honorarios, error>>
    /\ UNCHANGED varsExtra

\* A call of generar_proyecciones_multiple(d, l).
InitMultiple ==
    /\ llamada = "generar_proyecciones_multiple"
    /\ pc = "multiple"
    /\ retorno = NULL
    /\ \E e \in EntradasMultiple :
          /\ datos = e[1]
          /\ abonos = e[2]
    /\ indice = 0
    /\ resultado_actual = Ninguno
    /\ proyecciones = <<>>
    /\ SinTabla
    /\ resultado = Ninguno
    /\ ahorro_total = 0
    /\ honorarios = 0
    /\ error = NULL
    /\ SinExtra

\* The for loop takes the next abono and calls calcular_proyeccion, which
\* converts the rate and calls generar_tabla_amortizacion without abono.
ProyectarActual ==
    /\ pc = "multiple"
    /\ indice < Len(abonos)
    /\ LlamarTabla([ saldo_inicial |-> datos.saldo_capital,
                     tasa_mensual  |-> tasa_ea_a_mensual(datos.tasa_interes_ea),
                     cuota_fija    |-> datos.valor_cuota_actual,
                     abono_extra   |-> 0 ], "actual")
    /\ UNCHANGED <<llamada, resultado, varsProyeccion, ahorro_total, honorarios, error>>
    /\ UNCHANGED varsExtra

\* calcular_proyeccion keeps resultado_actual and calls
\* generar_tabla_amortizacion with the abono.
ProyectarConAbono ==
    /\ pc = "actual"
    /\ resultado_actual' = resultado
    /\ LlamarTabla([ saldo_inicial |-> datos.saldo_capital,
                     tasa_mensual  |-> args.tasa_mensual,
                     cuota_fija    |-> datos.valor_cuota_actual,
                     abono_extra   |-> abonos[indice + 1] ], "con_abono")
    /\ UNCHANGED <<llamada, resultado, datos, abonos, indice, proyecciones,
                   ahorro_total, honorarios, error>>
    /\ UNCHANGED varsExtra

\* calcular_proyeccion derives the savings and returns; the for loop appends
\* the projection. The division by valor_prestado_inicial = 0 raises, and the
\* exception leaves generar_proyecciones_multiple.
Proyectar ==
    /\ pc = "con_abono"
    /\ LET e == ErrorDivision(resultado.total_pagado, datos.valor_prestado_inicial)
       IN  IF e # NULL
           THEN /\ error' = e
                /\ pc' = "error"
                /\ UNCHANGED <<proyecciones, indice>>
           ELSE /\ proyecciones' =
                      Append(proyecciones,
                             ResultadoProyeccion(datos, abonos[indice + 1], indice + 1,
                                                 NombreOpcion(indice),
                                                 resultado_actual, resultado))
                /\ indice' = indice + 1
                /\ pc' = "multiple"
                /\ UNCHANGED error
    /\ UNCHANGED <<llamada, retorno, varsTabla, resultado, datos, abonos, resultado_actual,
                   ahorro_total, honorarios>>
    /\ UNCHANGED varsExtra

\* The for loop is over: generar_proyecciones_multiple returns proyecciones.
RetornarMultiple ==
    /\ pc = "multiple"
    /\ indice = Len(abonos)
    /\ pc' = "done"
    /\ UNCHANGED <<llamada, retorno, varsTabla, resultado, varsProyeccion,
                   ahorro_total, honorarios, error>>
    /\ UNCHANGED varsExtra

\* A direct call of calcular_honorarios(ahorro_total).
InitHonorarios ==
    /\ llamada = "calcular_honorarios"
    /\ pc = "honorarios"
    /\ retorno = NULL
    /\ ahorro_total \in Ahorros
    /\ honorarios = 0
    /\ SinTabla
    /\ SinProyeccion
    /\ resultado = Ninguno
    /\ error = NULL
    /\ SinExtra

Honorarios ==
    /\ pc = "honorarios"
    /\ honorarios' = calcular_honorarios(ahorro_total)
    /\ pc' = "done"
    /\ UNCHANGED <<llamada, retorno, varsTabla, resultado, varsProyeccion,
                   ahorro_total, error>>
    /\ UNCHANGED varsExtra

\* No call of generar_tabla_amortizacion, generar_proyecciones_multiple or
\* calcular_honorarios is running.
SinLlamada ==
    /\ retorno = NULL
    /\ SinTabla
    /\ SinProyeccion
    /\ resultado = Ninguno
    /\ ahorro_total = 0
    /\ honorarios = 0
    /\ error = NULL
    /\ calculadora = NuevaCalculadora
    /\ hilos = <<>>
    /\ marcos = <<>>
    /\ SinServicio

\* A direct call of calcular_cuota_fija(capital, tasa_mensual, num_cuotas).
InitCuotaFija ==
    /\ llamada = "calcular_cuota_fija"
    /\ pc = "directa"
    /\ argumentos \in CuotasFijas
    /\ devuelto = Ninguno
    /\ SinLlamada

CuotaFija ==
    /\ pc = "directa"
    /\ llamada = "calcular_cuota_fija"
    /\ devuelto' = calcular_cuota_fija(argumentos.capital, argumentos.tasa_mensual,
                                       argumentos.num_cuotas)
    /\ pc' = "done"
    /\ UNCHANGED <<llamada, retorno, varsTabla, resultado, varsProyeccion,
                   ahorro_total, honorarios, error, argumentos, calculadora, hilos, marcos,
                   varsServicio>>

\* tasa_ea_a_mensual(tasa_ea) called directly, and tasa_mensual_a_ea called
\* on what it returned.
InitTasa ==
    /\ llamada = "tasa_ea_a_mensual"
    /\ pc = "directa"
    /\ \E t \in TasasAnuales : argumentos = [ tasa_ea |-> t ]
    /\ devuelto = Ninguno
    /\ SinLlamada

TasaMensual ==
    /\ pc = "directa"
    /\ llamada = "tasa_ea_a_mensual"
    /\ devuelto' = [ tasa_mensual |-> tasa_ea_a_mensual(argumentos.tasa_ea) ]
    /\ pc' = "mensual"
    /\ UNCHANGED <<llamada, retorno, varsTabla, resultado, varsProyeccion,
                   ahorro_total, honorarios, error, argumentos, calculadora, hilos, marcos,
                   varsServicio>>

TasaAnual ==
    /\ pc = "mensual"
    /\ llamada = "tasa_ea_a_mensual"
    /\ devuelto' = [ tasa_mensual |-> devuelto.tasa_mensual,
                     tasa_ea      |-> tasa_mensual_a_ea(devuelto.tasa_mensual) ]
    /\ pc' = "done"
    /\ UNCHANGED <<llamada, retorno, varsTabla, resultado, varsProyeccion,
                   ahorro_total, honorarios, error, argumentos, calculadora, hilos, marcos,
                   varsServicio>>

\* A direct call of calcular_resumen_credito(datos, cuotas_pagadas, cuotas_pactadas).
InitResumen ==
    /\ llamada = "calcular_resumen_credito"
    /\ pc = "directa"
    /\ argumentos \in Resumenes
    /\ devuelto = Ninguno
    /\ SinLlamada

Resumen ==
    /\ pc = "directa"
    /\ llamada = "calcular_resumen_credito"
    /\ devuelto' = calcular_resumen_credito(argumentos.datos, argumentos.cuotas_pagadas,
                                            argumentos.cuotas_pactadas)
    /\ pc' = "done"
    /\ UNCHANGED <<llamada, retorno, varsTabla, resultado, varsProyeccion,
                   ahorro_total, honorarios, error, argumentos, calculadora, hilos, marcos,
                   varsServicio>>

\* A direct call of calcular_ingreso_minimo(cuota_mensual).
InitIngreso ==
    /\ llamada = "calcular_ingreso_minimo"
    /\ pc = "directa"
    /\ \E c \in CuotasMensuales : argumentos = [ cuota_mensual |-> c ]
    /\ devuelto = Ninguno
    /\ SinLlamada

Ingreso ==
    /\ pc = "directa"
    /\ llamada = "calcular_ingreso_minimo"
    /\ devuelto' = calcular_ingreso_minimo(argumentos.cuota_mensual)
    /\ pc' = "done"
    /\ UNCHANGED <<llamada, retorno, varsTabla, resultado, varsProyeccion,
                   ahorro_total, honorarios, error, argumentos, calculadora, hilos, marcos,
                   varsServicio>>

(***************************************************************************)
(* Threads: the same methods, each call with locals of its own             *)
(***************************************************************************)

\* Mutant: the locals are kept in one place for all the calls, as attributes
\* of the shared instance would be.
MarcoCompartido(h) == 1

\* The frame of thread h's call: the locals of a call belong to the call.
Marco(h) == h

\* A frame before the call assigns its locals.
MarcoVacio ==
    [ args |-> Ninguno, tabla |-> <<>>, saldo |-> 0, total_intereses |-> 0,
      total_capital |-> 0, total_pagado |-> 0, cuota_num |-> 0,
      resultado |-> Ninguno, resultado_actual |-> Ninguno,
      indice |-> 0, proyecciones |-> <<>> ]

\* generar_tabla_amortizacion(a) is entered: its locals before the loop.
EntrarTabla(m, a) ==
    [ m EXCEPT !.args = a, !.tabla = <<>>, !.saldo = a.saldo_inicial,
               !.total_intereses = 0, !.total_capital = 0,
               !.total_pagado = 0, !.cuota_num = 0 ]

\* One iteration of the while loop on the locals of a frame.
IterarMarco(m) ==
    LET fila == Fila(m.cuota_num + 1, m.saldo, m.args)
    IN  [ m EXCEPT !.cuota_num = m.cuota_num + 1,
                   !.saldo = fila.saldo_final,
                   !.total_intereses = m.total_intereses + fila.interes,
                   !.total_capital = m.total_capital + fila.abono_capital
                                       + fila.abono_extra,
                   !.total_pagado = m.total_pagado + fila.cuota_total,
                   !.tabla = Append(m.tabla, fila) ]

\* return ResultadoAmortizacion(...) from the locals of a frame.
ResultadoMarco(m) ==
    [ cuotas_totales  |-> m.cuota_num,
      total_pagado    |-> CuantizarDinero(m.total_pagado),
      total_intereses |-> CuantizarDinero(m.total_intereses),
      total_capital   |-> CuantizarDinero(m.total_capital),
      tabla           |-> m.tabla ]

\* The abono, number and name of the projection a thread is computing.
OpcionHilo(c, m) ==
    IF c.metodo = "calcular_proyeccion" THEN c.entrada
    ELSE [ abono_extra   |-> c.entrada.abonos[m.indice + 1],
           numero_opcion |-> m.indice + 1,
           nombre_opcion |-> NombreOpcion(m.indice) ]

\* Some other thread is inside a call.
OtroEnCurso(h) == \E g \in Hilos \ {h} : hilos[g].pc \notin {"llamar", "done"}

\* Thread h moves to control c and locals m; nothing else changes. solapado
\* records that the thread took a step while another call was running.
Avanzar(h, c, m) ==
    /\ hilos' = [ hilos EXCEPT ![h] = [ c EXCEPT !.solapado = @ \/ OtroEnCurso(h) ] ]
    /\ marcos' = [ marcos EXCEPT ![Marco(h)] = m ]
    /\ UNCHANGED <<llamada, pc, retorno, varsTabla, resultado, varsProyeccion,
                   ahorro_total, honorarios, error, argumentos, devuelto,
                   calculadora, varsServicio>>

\* Threads call methods of one CalculadoraFinanciera on one DatosCredito.
InitConcurrente ==
    /\ llamada = "concurrente"
    /\ pc = "hilos"
    /\ retorno = NULL
    /\ SinTabla
    /\ resultado = Ninguno
    /\ datos \in CreditosCompartidos
    /\ abonos = <<>>
    /\ indice = 0
    /\ resultado_actual = Ninguno
    /\ proyecciones = <<>>
    /\ ahorro_total = 0
    /\ honorarios = 0
    /\ error = NULL
    /\ argumentos = Ninguno
    /\ devuelto = Ninguno
    /\ calculadora = NuevaCalculadora
    /\ hilos \in [ Hilos -> { [ metodo |-> l.metodo, entrada |-> l.entrada,
                                 pc |-> "llamar", retorno |-> NULL,
                                 devuelto |-> Ninguno, solapado |-> FALSE ]
                               : l \in LlamadasHilo } ]
    /\ marcos = [ h \in Hilos |-> MarcoVacio ]
    /\ SinServicio

\* The arguments calcular_proyeccion passes to generar_tabla_amortizacion.
ArgsTabla(d, tasa_mensual, abono_extra) ==
    [ saldo_inicial |-> d.saldo_capital,
      tasa_mensual  |-> tasa_mensual,
      cuota_fija    |-> d.valor_cuota_actual,
      abono_extra   |-> abono_extra ]

\* Thread h enters generar_tabla_amortizacion, called directly.
HiloLlamarTabla(h) ==
    /\ hilos[h].pc = "llamar"
    /\ hilos[h].metodo = "generar_tabla_amortizacion"
    /\ Avanzar(h, [ hilos[h] EXCEPT !.pc = "tabla", !.retorno = "fin" ],
                EntrarTabla(marcos[Marco(h)], hilos[h].entrada))

\* Thread h runs calcular_resumen_credito on the shared datos.
HiloResumen(h) ==
    /\ hilos[h].pc = "llamar"
    /\ hilos[h].metodo = "calcular_resumen_credito"
    /\ Avanzar(h, [ hilos[h] EXCEPT
                      !.devuelto = calcular_resumen_credito(
                                       datos, hilos[h].entrada.cuotas_pagadas,
                                       hilos[h].entrada.cuotas_pactadas),
                      !.pc = "done" ],
                marcos[Marco(h)])

\* Thread h enters generar_proyecciones_multiple: proyecciones = [].
HiloLlamarMultiple(h) ==
    /\ hilos[h].pc = "llamar"
    /\ hilos[h].metodo = "generar_proyecciones_multiple"
    /\ Avanzar(h, [ hilos[h] EXCEPT !.pc = "multiple" ],
                [ marcos[Marco(h)] EXCEPT !.indice = 0, !.proyecciones = <<>> ])

\* Thread h enters calcular_proyeccion (directly, or from the for loop),
\* converts the rate of the shared datos and calls the schedule without abono.
HiloProyectarActual(h) ==
    /\ \/ hilos[h].pc = "llamar" /\ hilos[h].metodo = "calcular_proyeccion"
       \/ /\ hilos[h].pc = "multiple"
          /\ marcos[Marco(h)].indice < Len(hilos[h].entrada.abonos)
    /\ Avanzar(h, [ hilos[h] EXCEPT !.pc = "tabla", !.retorno = "actual" ],
                EntrarTabla(marcos[Marco(h)],
                            ArgsTabla(datos, tasa_ea_a_mensual(datos.tasa_interes_ea), 0)))

\* One iteration of thread h's while loop.
HiloIterar(h) ==
    /\ hilos[h].pc = "tabla"
    /\ CondicionBucle(marcos[Marco(h)].saldo, marcos[Marco(h)].cuota_num)
    /\ Avanzar(h, hilos[h], IterarMarco(marcos[Marco(h)]))

\* Thread h's generar_tabla_amortizacion returns, to the caller of the thread
\* or to calcular_proyeccion.
HiloRetornar(h) ==
    /\ hilos[h].pc = "tabla"
    /\ ~CondicionBucle(marcos[Marco(h)].saldo, marcos[Marco(h)].cuota_num)
    /\ LET r == ResultadoMarco(marcos[Marco(h)])
       IN  Avanzar(h,
                   IF hilos[h].retorno = "fin"
                   THEN [ hilos[h] EXCEPT !.devuelto = r, !.pc = "done" ]
                   ELSE [ hilos[h] EXCEPT !.pc = hilos[h].retorno ],
                   [ marcos[Marco(h)] EXCEPT !.resultado = r ])

\* Thread h's calcular_proyeccion keeps resultado_actual and calls the
\* schedule with the abono.
HiloProyectarConAbono(h) ==
    /\ hilos[h].pc = "actual"
    /\ LET m == marcos[Marco(h)]
       IN  Avanzar(h, [ hilos[h] EXCEPT !.pc = "tabla", !.retorno = "con_abono" ],
                   EntrarTabla([ m EXCEPT !.resultado_actual = m.resultado ],
                               ArgsTabla(datos, m.args.tasa_mensual,
                                         OpcionHilo(hilos[h], m).abono_extra)))

\* Thread h's calcular_proyeccion returns its ResultadoProyeccion, to the
\* caller of the thread or to the for loop, which appends it.
HiloProyectar(h) ==
    /\ hilos[h].pc = "con_abono"
    /\ LET m == marcos[Marco(h)]
           o == OpcionHilo(hilos[h], m)
           p == ResultadoProyeccion(datos, o.abono_extra, o.numero_opcion,
                                    o.nombre_opcion, m.resultado_actual, m.resultado)
       IN  IF hilos[h].metodo = "calcular_proyeccion"
           THEN Avanzar(h, [ hilos[h] EXCEPT !.devuelto = p, !.pc = "done" ], m)
           ELSE Avanzar(h, [ hilos[h] EXCEPT !.pc = "multiple" ],
                        [ m EXCEPT !.proyecciones = Append(m.proyecciones, p),
                                   !.indice = m.indice + 1 ])

\* Thread h's for loop is over: generar_proyecciones_multiple returns.
HiloRetornarMultiple(h) ==
    /\ hilos[h].pc = "multiple"
    /\ marcos[Marco(h)].indice >= Len(hilos[h].entrada.abonos)
    /\ Avanzar(h, [ hilos[h] EXCEPT !.devuelto = marcos[Marco(h)].proyecciones,
                                    !.pc = "done" ],
                marcos[Marco(h)])

\* The same calls run one after another: each call alone, from its entry
\* to its return.
RECURSIVE CorrerTabla(_)
CorrerTabla(m) ==
    IF CondicionBucle(m.saldo, m.cuota_num)
    THEN CorrerTabla(IterarMarco(m))
    ELSE ResultadoMarco(m)

TablaSecuencial(a) == CorrerTabla(EntrarTabla(MarcoVacio, a))

ProyeccionSecuencial(d, o) ==
    LET tasa_mensual == tasa_ea_a_mensual(d.tasa_interes_ea)
    IN  ResultadoProyeccion(d, o.abono_extra, o.numero_opcion, o.nombre_opcion,
                            TablaSecuencial(ArgsTabla(d, tasa_mensual, 0)),
                            TablaSecuencial(ArgsTabla(d, tasa_mensual, o.abono_extra)))

MultipleSecuencial(d, abonos_extra) ==
    [ i \in 1..Len(abonos_extra) |->
        ProyeccionSecuencial(d, [ abono_extra   |-> abonos_extra[i],
                                  numero_opcion |-> i,
                                  nombre_opcion |-> NombreOpcion(i - 1) ]) ]

ResultadoSecuencial(d, c) ==
    CASE c.metodo = "generar_tabla_amortizacion" -> TablaSecuencial(c.entrada)
      [] c.metodo = "calcular_proyeccion" -> ProyeccionSecuencial(d, c.entrada)
      [] c.metodo = "generar_proyecciones_multiple" ->
             MultipleSecuencial(d, c.entrada.abonos)
      [] c.metodo = "calcular_resumen_credito" ->
             calcular_resumen_credito(d, c.entrada.cuotas_pagadas,
                                      c.entrada.cuotas_pactadas)

(***************************************************************************)
(* AnalysisService and the repositories: one analysis and its proposals    *)
(***************************************************************************)

\* None in a column of the analysis; the columns of the model hold numbers.
SinValor == 0 - 1

\* campos_requeridos of AnalysesRepo.update_manual_fields.
CamposCriticos ==
    { "saldo_capital_pesos", "valor_cuota_con_seguros",
      "cuotas_pendientes", "tasa_interes_cobrada_ea" }

\* required_fields of _validate_analysis_for_projection.
CamposRequeridos == CamposCriticos \cup { "valor_prestado_inicial" }

\* The data columns of the model: the required ones and one that is not.
CamposDatos == CamposRequeridos \cup { "seguro_vida" }

\* The values the extraction found in the statement (money in thousandths,
\* the rate in millionths).
ValorExtraido(campo) ==
    CASE campo = "saldo_capital_pesos"     -> 60000
      [] campo = "valor_cuota_con_seguros" -> 30000
      [] campo = "cuotas_pendientes"       -> 12
      [] campo = "tasa_interes_cobrada_ea" -> 126825
      [] campo = "valor_prestado_inicial"  -> 100000
      [] campo = "seguro_vida"             -> 50

\* The values a user types for the same columns.
ValorManual(campo) ==
    CASE campo = "saldo_capital_pesos"     -> 100000
      [] campo = "valor_cuota_con_seguros" -> 12000
      [] campo = "cuotas_pendientes"       -> 24
      [] campo = "tasa_interes_cobrada_ea" -> 0
      [] campo = "valor_prestado_inicial"  -> 200000
      [] campo = "seguro_vida"             -> 80

\* The status values of an analysis that the calls tell apart.
Estados ==
    { "PENDING_MANUAL", "EXTRACTED", "VALIDATED", "NAME_MISMATCH",
      "ID_MISMATCH", "ERROR" }

\* usuario_id of the owner of the analysis, of another user, and None.
Propietario == "propietario"
OtroUsuario == "otro"

\* The sets of columns the extraction may have found.
Extracciones ==
    { {}, CamposCriticos, CamposRequeridos, CamposDatos,
      CamposDatos \ { "tasa_interes_cobrada_ea" },
      CamposDatos \ { "valor_prestado_inicial", "seguro_vida", "cuotas_pendientes" } }

\* The analysis create_analysis_from_document left for a statement in which the extraction
\* found the columns of encontrados: the values, campos_extraidos_ia and
\* datos_raw_gemini; prestado is the amount lent it read, if it found it.
AnalisisCreado(encontrados, prestado, status) ==
    [ usuario_id          |-> Propietario,
      status              |-> status,
      campos              |-> [ c \in CamposDatos |->
                                  IF c \notin encontrados THEN SinValor
                                  ELSE IF c = "valor_prestado_inicial" THEN prestado
                                  ELSE ValorExtraido(c) ],
      sistema_amortizacion   |-> "UVR",
      ajuste_inflacion_pesos |-> SinValor,
      campos_manuales     |-> {},
      campos_extraidos_ia |-> encontrados,
      datos_raw_gemini    |-> encontrados ]

\* manual_data of a call of update_manual_fields: the columns the request
\* gives a value.
DatosManuales ==
    { [ c \in d |-> ValorManual(c) ] :
        d \in { {}, {"seguro_vida"}, {"valor_prestado_inicial"},
                {"tasa_interes_cobrada_ea"}, {"saldo_capital_pesos", "seguro_vida"},
                {"valor_cuota_con_seguros", "cuotas_pendientes"},
                CamposCriticos, CamposDatos } }

\* Mutant: the columns of campos_extraidos_ia are accepted like the others.
CamposPermitidosSinReadonly(a, manual_data) ==
    { c \in DOMAIN manual_data : manual_data[c] # SinValor }

\* campos_permitidos of update_manual_fields: a column that is not in
\* campos_extraidos_ia, and that is empty or has no value in datos_raw_gemini.
CamposPermitidos(a, manual_data) ==
    { c \in DOMAIN manual_data :
        /\ manual_data[c] # SinValor
        /\ c \notin a.campos_extraidos_ia
        /\ (a.campos[c] = SinValor \/ c \notin a.datos_raw_gemini) }

\* if x: of a Decimal column, which is neither None nor 0.
Verdadero(x) == x # SinValor /\ x # 0

\* AnalysesRepo.calculate_derived_fields, for the inflation adjustment.
calculate_derived_fields(a) ==
    IF /\ a.sistema_amortizacion = "UVR"
       /\ Verdadero(a.campos["saldo_capital_pesos"])
       /\ Verdadero(a.campos["valor_prestado_inicial"])
    THEN [ a EXCEPT !.ajuste_inflacion_pesos =
                        a.campos["saldo_capital_pesos"]
                            - a.campos["valor_prestado_inicial"] ]
    ELSE a

\* AnalysesRepo.update_manual_fields(analisis, manual_data), manual_data
\* being campos_permitidos with the key "campos_manuales" the service added
\* (nuevos): every key is set on the row, campos_manuales too, and then
\* campos_manuales is set to the keys that were set.
RepoUpdateManualFields(a, permitidos, manual_data, nuevos) ==
    LET campos == [ c \in CamposDatos |->
                      IF c \in permitidos THEN manual_data[c] ELSE a.campos[c] ]
        campos_actualizados == permitidos \cup { "campos_manuales" }
        completo == \A c \in CamposCriticos : campos[c] # SinValor
    IN  [ a EXCEPT !.campos = campos,
                   !.campos_manuales = campos_actualizados,
                   !.status = IF completo /\ a.status = "PENDING_MANUAL"
                              THEN "EXTRACTED" ELSE a.status ]

\* estados_permitidos of update_manual_fields.
EstadosPermitidos == { "PENDING_MANUAL", "EXTRACTED", "NAME_MISMATCH", "ID_MISMATCH" }

\* The analysis after update_manual_fields(analisis_id, usuario_id,
\* manual_data) when the call gets past its checks.
ServicioUpdateManualFields(a, manual_data) ==
    LET permitidos == CamposPermitidos(a, manual_data)
        nuevos     == a.campos_manuales \cup permitidos
    IN  IF permitidos = {} THEN a
        ELSE calculate_derived_fields(
                 RepoUpdateManualFields(a, permitidos, manual_data, nuevos))

\* _get_remaining_required_fields
CamposFaltantes(a) == { c \in CamposCriticos : a.campos[c] = SinValor }

\* The DatosCredito _calculate_baseline builds from the analysis.
DatosDelAnalisis(a) ==
    [ saldo_capital          |-> a.campos["saldo_capital_pesos"],
      valor_cuota_actual     |-> a.campos["valor_cuota_con_seguros"],
      cuotas_pendientes      |-> a.campos["cuotas_pendientes"],
      tasa_interes_ea        |-> a.campos["tasa_interes_cobrada_ea"],
      valor_prestado_inicial |-> a.campos["valor_prestado_inicial"] ]

\* The exception, if any, of the calcular_proyeccion of _calculate_baseline
\* (abono 0): the division by valor_prestado_inicial.
ErrorBaseline(a) ==
    LET d == DatosDelAnalisis(a)
    IN  ErrorDivision(
            TablaSecuencial(ArgsTabla(d, tasa_ea_a_mensual(d.tasa_interes_ea), 0)).total_pagado,
            d.valor_prestado_inicial)

\* The opciones of a call of generate_projections: numero_opcion and
\* abono_adicional_mensual of each, no nombre_opcion; the numbers may repeat.
OpcionesAbono ==
    { [ numero_opcion |-> 1, abono_adicional_mensual |-> 10000 ],
      [ numero_opcion |-> 2, abono_adicional_mensual |-> 20000 ] }

ListasOpciones == UNION { [1..n -> OpcionesAbono] : n \in 0..2 }

\* propuestas_repo.create(**propuesta_data): the row of one option, with the
\* id the database gives it.
PropuestaCreada(a, opcion, id) ==
    LET nombre == "Opcion " \o ToString(opcion.numero_opcion)
        p == ProyeccionSecuencial(DatosDelAnalisis(a),
                                  [ abono_extra   |-> opcion.abono_adicional_mensual,
                                    numero_opcion |-> opcion.numero_opcion,
                                    nombre_opcion |-> nombre ])
    IN  [ id                       |-> id,
          numero_opcion            |-> opcion.numero_opcion,
          nombre_opcion            |-> nombre,
          abono_adicional_mensual  |-> opcion.abono_adicional_mensual,
          origen                   |-> "USER",
          cuotas_nuevas            |-> p.cuotas_nuevas,
          cuotas_reducidas         |-> p.cuotas_reducidas,
          valor_ahorrado_intereses |-> p.valor_ahorrado_intereses,
          es_opcion_seleccionada   |-> FALSE ]

\* Mutant: an analysis in ID_MISMATCH is projected too.
EstadosProyectablesConIdMismatch ==
    { "EXTRACTED", "VALIDATED", "NAME_MISMATCH", "ID_MISMATCH" }

\* if analisis.status not in ["EXTRACTED", "VALIDATED", "NAME_MISMATCH"]
EstadosProyectables == { "EXTRACTED", "VALIDATED", "NAME_MISMATCH" }

\* _validate_analysis_for_projection
ValidoParaProyeccion(a) == \A c \in CamposRequeridos : a.campos[c] # SinValor

\* A service call ends: the rows it leaves committed, what it returns, and
\* the record of the call.
Responder(operacion, entrada, a, p, r, creadas, aceptados) ==
    /\ analisis' = a
    /\ propuestas' = p
    /\ respuesta' = r
    /\ historia' = [ historia EXCEPT
                       !.llamadas  = @ + 1,
                       !.creadas   = @ + creadas,
                       !.aceptados = @ \cup aceptados,
                       !.operacion = operacion,
                       !.entrada   = entrada ]
    /\ UNCHANGED <<llamada, pc, retorno, varsTabla, resultado, varsProyeccion,
                   ahorro_total, honorarios, error, argumentos, devuelto,
                   calculadora, hilos, marcos>>

\* AnalysisService.update_manual_fields(analisis_id, usuario_id, manual_data)
UpdateManualFields ==
    /\ llamada = "servicio"
    /\ historia.llamadas < MaxLlamadas
    /\ \E manual_data \in DatosManuales, usuario_id \in { Propietario, OtroUsuario } :
          LET entrada == [ campos |-> DOMAIN manual_data, usuario_id |-> usuario_id ]
              nuevo   == ServicioUpdateManualFields(analisis, manual_data)
          IN  IF usuario_id # analisis.usuario_id
              THEN Responder("update_manual_fields", entrada, analisis, propuestas,
                             [ success |-> FALSE, error_code |-> "ANALYSIS_NOT_FOUND" ],
                             0, {})
              ELSE IF analisis.status \notin EstadosPermitidos
              THEN Responder("update_manual_fields", entrada, analisis, propuestas,
                             [ success |-> FALSE, error_code |-> "INVALID_STATUS" ],
                             0, {})
              ELSE Responder("update_manual_fields", entrada, nuevo, propuestas,
                             [ success |-> TRUE, error_code |-> NULL,
                               requires_manual_input |-> nuevo.status = "PENDING_MANUAL",
                               campos_faltantes |-> CamposFaltantes(nuevo),
                               campos_extraidos |-> analisis.campos_extraidos_ia ],
                             0, CamposPermitidos(analisis, manual_data))

\* AnalysisService.generate_projections(analisis_id, opciones, usuario_id);
\* usuario_id None looks the analysis up by its id alone. An exception on
\* the way rolls everything back.
GenerateProjections ==
    /\ llamada = "servicio"
    /\ historia.llamadas < MaxLlamadas
    /\ \E opciones \in ListasOpciones, usuario_id \in { Propietario, OtroUsuario, NULL } :
          LET entrada == [ opciones |-> opciones, usuario_id |-> usuario_id ]
              nuevas  == [ i \in 1..Len(opciones) |->
                             PropuestaCreada(analisis, opciones[i], historia.creadas + i) ]
              fallo(mensaje) ==
                  Responder("generate_projections", entrada, analisis, propuestas,
                            [ success |-> FALSE, error_message |-> mensaje,
                              propuestas |-> <<>> ], 0, {})
          IN  IF usuario_id # NULL /\ usuario_id # analisis.usuario_id
              THEN fallo("Analisis no encontrado")
              ELSE IF analisis.status \notin EstadosProyectables
              THEN fallo("El analisis debe estar validado")
              ELSE IF ~ValidoParaProyeccion(analisis)
              THEN fallo("El analisis no tiene los datos minimos requeridos")
              ELSE IF ErrorBaseline(analisis) # NULL
              THEN fallo(ErrorBaseline(analisis))
              ELSE Responder("generate_projections", entrada,
                             [ analisis EXCEPT !.status =
                                 IF @ = "EXTRACTED" THEN "VALIDATED" ELSE @ ],
                             nuevas,
                             [ success |-> TRUE, error_message |-> NULL,
                               propuestas |-> nuevas ],
                             Len(opciones), {})

\* The proposals of the analysis that carry numero_opcion.
ConNumero(p, numero_opcion) ==
    { i \in 1..Len(p) : p[i].numero_opcion = numero_opcion }

\* PropuestasRepo.select_opcion when one row carries the number: every row
\* of the analysis is unmarked and that row is marked.
Seleccionadas(p, numero_opcion) ==
    [ i \in 1..Len(p) |->
        [ p[i] EXCEPT !.es_opcion_seleccionada = (p[i].numero_opcion = numero_opcion) ] ]

\* The endpoint select_option: PropuestasRepo.select_opcion and the commit.
\* With no row of that number the endpoint answers 404 and commits nothing;
\* with several, scalar_one_or_none raises MultipleResultsFound and nothing
\* is committed either.
SelectOpcion ==
    /\ llamada = "servicio"
    /\ historia.llamadas < MaxLlamadas
    /\ \E numero_opcion \in 1..3, usuario_id \in { Propietario, OtroUsuario } :
          LET entrada == [ numero_opcion |-> numero_opcion, usuario_id |-> usuario_id ]
              n       == Cardinality(ConNumero(propuestas, numero_opcion))
              fallo(codigo) ==
                  Responder("select_opcion", entrada, analisis, propuestas,
                            [ success |-> FALSE, error_code |-> codigo ], 0, {})
          IN  IF usuario_id # analisis.usuario_id THEN fallo("ANALYSIS_NOT_FOUND")
              ELSE IF n = 0 THEN fallo("OPTION_NOT_FOUND")
              ELSE IF n > 1 THEN fallo("MultipleResultsFound")
              ELSE Responder("select_opcion", entrada, analisis,
                             Seleccionadas(propuestas, numero_opcion),
                             [ success |-> TRUE, error_code |-> NULL ], 0, {})

\* An analysis as create_analysis_from_document and the validations left
\* it, without proposals yet.
InitServicio ==
    /\ llamada = "servicio"
    /\ pc = "servicio"
    /\ retorno = NULL
    /\ SinTabla
    /\ SinProyeccion
    /\ resultado = Ninguno
    /\ ahorro_total = 0
    /\ honorarios = 0
    /\ error = NULL
    /\ calculadora = NuevaCalculadora
    /\ hilos = <<>>
    /\ marcos = <<>>
    /\ argumentos = Ninguno
    /\ devuelto = Ninguno
    /\ \E encontrados \in Extracciones, prestado \in {0, 100000}, status \in Estados :
          /\ analisis = calculate_derived_fields(
                            AnalisisCreado(encontrados, prestado, status))
          /\ historia = [ llamadas |-> 0, creadas |-> 0, aceptados |-> {},
                          iniciales |-> analisis.campos,
                          status_inicial |-> status,
                          operacion |-> NULL, entrada |-> Ninguno ]
    /\ propuestas = <<>>
    /\ respuesta = Ninguno

(***************************************************************************)
(* Specifications                                                          *)
(***************************************************************************)

\* Direct calls of generar_tabla_amortizacion.
Next == Iterar \/ Retornar

Spec == InitTabla /\ [][Next]_vars

\* Calls of generar_proyecciones_multiple, of calcular_honorarios and of
\* calcular_ingreso_minimo.
NextProyeccion ==
    \/ ProyectarActual
    \/ Iterar
    \/ Retornar
    \/ ProyectarConAbono
    \/ Proyectar
    \/ RetornarMultiple
    \/ Honorarios
    \/ Ingreso

SpecProyeccion ==
    (InitMultiple \/ InitHonorarios \/ InitIngreso) /\ [][NextProyeccion]_vars

\* Direct calls of calcular_cuota_fija and calcular_resumen_credito.
NextDirecta ==
    \/ CuotaFija
    \/ Resumen
    \/ TasaMensual
    \/ TasaAnual

SpecDirecta == (InitCuotaFija \/ InitResumen \/ InitTasa) /\ [][NextDirecta]_vars

NextServicio ==
    \/ UpdateManualFields
    \/ GenerateProjections
    \/ SelectOpcion

SpecServicio == InitServicio /\ [][NextServicio]_vars

\* Threads calling the methods at the same time, one step of one thread at
\* a time, in any order.
NextConcurrente ==
    \E h \in Hilos :
        \/ HiloLlamarTabla(h)
        \/ HiloResumen(h)
        \/ HiloLlamarMultiple(h)
        \/ HiloProyectarActual(h)
        \/ HiloIterar(h)
        \/ HiloRetornar(h)
        \/ HiloProyectarConAbono(h)
        \/ HiloProyectar(h)
        \/ HiloRetornarMultiple(h)

SpecConcurrente == InitConcurrente /\ [][NextConcurrente]_vars

(***************************************************************************)
(* Properties of generar_tabla_amortizacion (checked under Spec)           *)
(***************************************************************************)

\* The last row of a schedule.
Ultima(t) == t[Len(t)]

\* cuota_fija > tasa_mensual * saldo_inicial: the installment exceeds the
\* first period's interest, before any rounding (thousandths against 10^-9).
CuotaSuperaInteres(a) ==
    a.cuota_fija > (a.tasa_mensual * a.saldo_inicial) \div 1000000

\* saldo_inicial, cuota_fija and abono_extra are given to two decimals.
DosDecimales(a) ==
    /\ a.saldo_inicial % PRECISION_DINERO = 0
    /\ a.cuota_fija % PRECISION_DINERO = 0
    /\ a.abono_extra % PRECISION_DINERO = 0

\* The sum of cuota_total over the rows of a schedule.
RECURSIVE SumaCuotas(_)
SumaCuotas(t) ==
    IF t = <<>> THEN 0
    ELSE SumaCuotas(SubSeq(t, 1, Len(t) - 1)) + Ultima(t).cuota_total

\* The call has returned its ResultadoAmortizacion to the caller.
TablaRetornada == llamada = "generar_tabla_amortizacion" /\ pc = "done"

\* C1 as stated: with a positive balance, an abono >= 0 and an installment
\* above the first period's interest, the loop stops strictly before
\* max_cuotas periods and the last row's saldo_final is below 0.01.
C1_Original ==
    (TablaRetornada /\ args.saldo_inicial > 0 /\ args.abono_extra >= 0
        /\ CuotaSuperaInteres(args))
    => /\ resultado.cuotas_totales < max_cuotas
       /\ resultado.tabla # <<>> => Ultima(resultado.tabla).saldo_final < PRECISION_DINERO

\* C1 as amended: under the same conditions the loop stops after at most
\* max_cuotas periods, and when it stops before max_cuotas periods the last
\* row's saldo_final is at most 0.01 (it can be 0.01 exactly). An installment
\* that exceeds the interest by little does not pay the loan within the cap.
C1_Amended ==
    (TablaRetornada /\ args.saldo_inicial > 0 /\ args.abono_extra >= 0
        /\ CuotaSuperaInteres(args))
    => /\ resultado.cuotas_totales <= max_cuotas
       /\ (resultado.cuotas_totales < max_cuotas /\ resultado.tabla # <<>>)
            => Ultima(resultado.tabla).saldo_final <= PRECISION_DINERO

\* An installment above the first interest whose schedule hits the cap with
\* the balance unpaid.
C1_Witness ==
    /\ TablaRetornada
    /\ args.saldo_inicial > 0 /\ args.abono_extra >= 0 /\ CuotaSuperaInteres(args)
    /\ resultado.cuotas_totales = max_cuotas
    /\ Ultima(resultado.tabla).saldo_final > PRECISION_DINERO

\* C3: conservation. In every row of a returned schedule saldo_final =
\* saldo_inicial - abono_capital - abono_extra and saldo_final >= 0; and for
\* inputs given to two decimals total_pagado is the sum of the rows'
\* cuota_total.
C3_Conservacion ==
    TablaRetornada
    => /\ \A k \in 1..Len(resultado.tabla) :
            LET f == resultado.tabla[k]
            IN  /\ f.saldo_final = f.saldo_inicial - f.abono_capital - f.abono_extra
                /\ f.saldo_final >= 0
       /\ DosDecimales(args) => resultado.total_pagado = SumaCuotas(resultado.tabla)

\* A two-decimal schedule of several rows with a positive abono, paid off.
C3_Witness ==
    /\ TablaRetornada
    /\ DosDecimales(args)
    /\ args.abono_extra > 0
    /\ Len(resultado.tabla) >= 2
    /\ Ultima(resultado.tabla).saldo_final = 0

\* C4: the final-period rule. A row whose opening balance is at most
\* (cuota_fija - interes) + abono_extra pays the whole balance as
\* abono_capital, no abono_extra, cuota_total = interes + balance, and closes
\* at 0; every other row has abono_extra = the abono and cuota_total =
\* cuota_fija + abono_extra; so no row pays more than cuota_fija + abono_extra.
C4_UltimaCuota ==
    TablaRetornada
    => \A k \in 1..Len(resultado.tabla) :
          LET f == resultado.tabla[k]
              final == f.saldo_inicial <= (args.cuota_fija - f.interes) + args.abono_extra
          IN  /\ final => /\ f.abono_capital = f.saldo_inicial
                          /\ f.abono_extra = 0
                          /\ f.cuota_total = f.interes + f.saldo_inicial
                          /\ f.saldo_final = 0
              /\ ~final => /\ f.abono_extra = args.abono_extra
                           /\ f.cuota_total = args.cuota_fija + args.abono_extra
              /\ f.cuota_total <= args.cuota_fija + args.abono_extra

\* A schedule whose first row carries the abono and whose last row is a
\* final period that pays less than cuota_fija + abono_extra.
C4_Witness ==
    /\ TablaRetornada
    /\ Len(resultado.tabla) >= 2
    /\ args.abono_extra > 0
    /\ resultado.tabla[1].abono_extra = args.abono_extra
    /\ Ultima(resultado.tabla).abono_extra = 0
    /\ Ultima(resultado.tabla).saldo_final = 0
    /\ Ultima(resultado.tabla).cuota_total < args.cuota_fija + args.abono_extra

\* C5: a schedule returned with fewer than max_cuotas rows has a last row
\* whose saldo_final is below one peso, and its total_capital differs from
\* saldo_inicial by less than one peso.
C5_Pagado ==
    (TablaRetornada /\ resultado.cuotas_totales < max_cuotas /\ resultado.tabla # <<>>)
    => /\ Ultima(resultado.tabla).saldo_final < 1000
       /\ resultado.total_capital - args.saldo_inicial < 1000
       /\ args.saldo_inicial - resultado.total_capital < 1000

\* A schedule that stops before the cap with a remainder left in the balance.
C5_Witness ==
    /\ TablaRetornada
    /\ resultado.cuotas_totales < max_cuotas
    /\ Len(resultado.tabla) >= 2
    /\ Ultima(resultado.tabla).saldo_final > 0
    /\ resultado.total_capital # args.saldo_inicial

\* C6: bounded iteration, for every input. The loop counter equals the number
\* of rows and never exceeds max_cuotas, every iteration advances it by one
\* (so the loop ends within max_cuotas iterations), and the returned
\* cuotas_totales is the number of rows of the returned tabla.
C6_Acotado ==
    /\ [](/\ cuota_num = Len(tabla)
          /\ cuota_num <= max_cuotas
          /\ TablaRetornada => /\ resultado.cuotas_totales = Len(resultado.tabla)
                               /\ resultado.cuotas_totales <= max_cuotas)
    /\ [][(pc = "tabla" /\ pc' = "tabla") => cuota_num' = cuota_num + 1]_vars
    /\ [][pc = "done" => pc' = "done"]_vars

\* A negative installment runs the loop to the cap and returns.
C6_Witness ==
    /\ TablaRetornada
    /\ args.cuota_fija < 0
    /\ resultado.cuotas_totales = max_cuotas

\* C9: non-convergence is a value. When the loop has run max_cuotas times
\* and the balance is still above 0.01, the next step is the return: no
\* exception, cuotas_totales = max_cuotas, the max_cuotas rows built, and a
\* last row whose saldo_final is not 0.
C9_SinConvergencia ==
    [][(pc = "tabla" /\ cuota_num = max_cuotas /\ saldo > PRECISION_DINERO)
        => /\ pc' = retorno
           /\ error' = NULL
           /\ resultado'.cuotas_totales = max_cuotas
           /\ Len(resultado'.tabla) = max_cuotas
           /\ Ultima(resultado'.tabla).saldo_final # 0]_vars

\* An installment that does not cover the interest: the cap is hit with the
\* balance unpaid and the call has returned.
C9_Witness ==
    /\ TablaRetornada
    /\ error = NULL
    /\ args.cuota_fija >= 0
    /\ ~CuotaSuperaInteres(args)
    /\ cuota_num = max_cuotas
    /\ saldo > PRECISION_DINERO

\* (x * t) / 10^7 rounded half-up, for x * t >= 0, split as in
\* ProductoRedondeado.
ProductoMitadArriba(x, t) ==
    LET xh    == x \div 10000
        xl    == x % 10000
        ah    == (xh * t) \div 1000
        al    == (xh * t) % 1000
        resto == al * 10000 + xl * t
    IN  RedondeoMitadArriba(ah + (resto \div 10000000), resto % 10000000, 10000000)

\* C14 as stated: in every row the interest is the row's opening balance (the
\* balance left by the previous row, before this row's payment) times
\* tasa_mensual, rounded to two decimals half-up, and the principal of a row
\* that is not the final one is cuota_fija - interes.
C14_InteresMitadArriba ==
    \A k \in 1..Len(tabla) :
        LET f == tabla[k]
            final == f.saldo_inicial <= (args.cuota_fija - f.interes) + args.abono_extra
        IN  /\ f.saldo_inicial = IF k = 1 THEN args.saldo_inicial
                                 ELSE tabla[k - 1].saldo_final
            /\ f.interes = PRECISION_DINERO *
                              ProductoMitadArriba(f.saldo_inicial, args.tasa_mensual)
            /\ ~final => f.abono_capital = args.cuota_fija - f.interes

\* C25: no negative amortization. With abono_extra >= 0 (and an installment
\* that is not negative), every row of every schedule has abono_capital >= 0
\* and saldo_final <= saldo_inicial: the balance never grows from one period
\* to the next, also when cuota_fija is below the interest of the period.
C25_SinAmortizacionNegativa ==
    (llamada = "generar_tabla_amortizacion"
        /\ args.abono_extra >= 0 /\ args.cuota_fija >= 0)
    => \A k \in 1..Len(tabla) :
           /\ tabla[k].abono_capital >= 0
           /\ tabla[k].saldo_final <= tabla[k].saldo_inicial

\* C26: payment decomposition. In every row cuota_total = interes +
\* abono_capital + abono_extra; the saldo_inicial of a row is the
\* saldo_final of the row before it, the first row's being the balance
\* given; and for inputs given to two decimals total_pagado =
\* total_intereses + total_capital.
C26_Descomposicion ==
    TablaRetornada
    => /\ \A k \in 1..Len(resultado.tabla) :
            LET f == resultado.tabla[k]
            IN  /\ f.cuota_total = f.interes + f.abono_capital + f.abono_extra
                /\ f.saldo_inicial = IF k = 1 THEN args.saldo_inicial
                                     ELSE resultado.tabla[k - 1].saldo_final
       /\ DosDecimales(args)
            => resultado.total_pagado
                   = resultado.total_intereses + resultado.total_capital

\* A two-decimal schedule that bears interest, with rows that take the
\* abono and a last row that pays the balance off.
C26_Witness ==
    /\ TablaRetornada
    /\ DosDecimales(args)
    /\ Len(resultado.tabla) >= 3
    /\ resultado.tabla[1].abono_extra > 0
    /\ resultado.tabla[2].interes > 0
    /\ resultado.tabla[2].saldo_inicial < args.saldo_inicial
    /\ Ultima(resultado.tabla).saldo_final = 0
    /\ Ultima(resultado.tabla).cuota_total < args.cuota_fija + args.abono_extra
    /\ resultado.total_intereses > 0

(***************************************************************************)
(* Properties of the projections (checked under SpecProyeccion)            *)
(***************************************************************************)

\* C2: monotonicity in the abono. Of two projections of one loan, the one
\* with the larger abono (both >= 0) has no more cuotas_nuevas and no less
\* valor_ahorrado_intereses, also when a schedule hits the cap.
C2_Monotonia ==
    \A i, j \in 1..Len(proyecciones) :
        (0 <= proyecciones[i].abono_adicional
            /\ proyecciones[i].abono_adicional < proyecciones[j].abono_adicional)
        => /\ proyecciones[i].cuotas_nuevas >= proyecciones[j].cuotas_nuevas
           /\ proyecciones[i].valor_ahorrado_intereses
                <= proyecciones[j].valor_ahorrado_intereses

\* Two projections of a loan whose schedule without abono hits the cap: the
\* larger abono pays it off and saves interest.
C2_Witness ==
    /\ llamada = "generar_proyecciones_multiple"
    /\ pc = "done"
    /\ Len(proyecciones) = 2
    /\ proyecciones[1].abono_adicional < proyecciones[2].abono_adicional
    /\ proyecciones[1].cuotas_nuevas = max_cuotas
    /\ proyecciones[2].cuotas_nuevas < max_cuotas
    /\ proyecciones[1].valor_ahorrado_intereses
         < proyecciones[2].valor_ahorrado_intereses

\* C7: savings are never negative. A projection with abono >= 0 has
\* cuotas_reducidas >= 0 and valor_ahorrado_intereses >= 0, and with abono 0
\* both are 0.
C7_AhorroNoNegativo ==
    \A k \in 1..Len(proyecciones) :
        LET p == proyecciones[k]
        IN  /\ p.abono_adicional >= 0
                => p.cuotas_reducidas >= 0 /\ p.valor_ahorrado_intereses >= 0
            /\ p.abono_adicional = 0
                => p.cuotas_reducidas = 0 /\ p.valor_ahorrado_intereses = 0

\* A projection without abono (no savings) followed by one whose abono saves
\* installments and interest.
C7_Witness ==
    /\ llamada = "generar_proyecciones_multiple"
    /\ Len(proyecciones) = 2
    /\ proyecciones[1].abono_adicional = 0
    /\ proyecciones[1].cuotas_reducidas = 0
    /\ proyecciones[2].abono_adicional > 0
    /\ proyecciones[2].cuotas_reducidas > 0
    /\ proyecciones[2].valor_ahorrado_intereses > 0
    /\ proyecciones[2].cuotas_nuevas > 1

\* C8: fee with floor. The fee of calcular_honorarios(ahorro) is never below
\* TARIFA_MINIMA_HONORARIOS; it is the minimum exactly when 3% of the savings
\* is below the minimum; otherwise it is 3% of the savings to within half a
\* centavo (a two-decimal rounding). Every projection's fee is at least the
\* minimum and is the minimum when no interest is saved.
C8_Honorarios ==
    /\ (llamada = "calcular_honorarios" /\ pc = "done")
       => LET q      == ahorro_total \div 100
              r      == ahorro_total % 100
              \* the whole centavos of 3% of the savings
              entero == 3 * q + ((3 * r) \div 100)
              \* 100 * honorarios - 3 * ahorro_total, kept small
              desvio == 100 * (honorarios - 3 * q) - 3 * r
          IN  /\ honorarios >= TARIFA_MINIMA_HONORARIOS
              /\ entero < TARIFA_MINIMA_HONORARIOS
                    => honorarios = TARIFA_MINIMA_HONORARIOS
              /\ entero >= TARIFA_MINIMA_HONORARIOS
                    => desvio <= 50 /\ desvio >= 0 - 50
    /\ \A k \in 1..Len(proyecciones) :
          /\ proyecciones[k].honorarios >= PRECISION_DINERO * TARIFA_MINIMA_HONORARIOS
          /\ proyecciones[k].valor_ahorrado_intereses = 0
                => proyecciones[k].honorarios = PRECISION_DINERO * TARIFA_MINIMA_HONORARIOS

\* Savings whose 3% is above the minimum and is rounded to the centavo.
C8_Witness ==
    /\ llamada = "calcular_honorarios"
    /\ pc = "done"
    /\ honorarios > TARIFA_MINIMA_HONORARIOS
    /\ (3 * (ahorro_total % 100)) % 100 # 0

\* The fields of a ResultadoAmortizacion and of a ResultadoProyeccion.
CamposAmortizacion ==
    { "cuotas_totales", "total_pagado", "total_intereses", "total_capital", "tabla" }

CamposProyeccion ==
    { "numero_opcion", "nombre_opcion", "abono_adicional", "cuotas_nuevas",
      "tiempo_restante", "cuotas_reducidas", "tiempo_ahorrado", "nuevo_valor_cuota",
      "total_por_pagar", "valor_ahorrado_intereses", "veces_pagado", "honorarios",
      "honorarios_con_iva", "ingreso_minimo_requerido" }

\* generar_tabla_amortizacion has just returned resultado to calcular_proyeccion.
ResultadoRecibido == pc \in {"actual", "con_abono"}

\* The loop of that call stopped with the balance still above 0.01.
NoConvergio == saldo > PRECISION_DINERO

\* The loan has a negative balance, amount lent or installment.
EntradaNegativa(d) ==
    \/ d.saldo_capital < 0
    \/ d.valor_prestado_inicial < 0
    \/ d.valor_cuota_actual < 0

C11_EntradaInvalida ==
    (llamada = "generar_proyecciones_multiple" /\ EntradaNegativa(datos))
    => /\ proyecciones = <<>>
       /\ (pc = "multiple" /\ indice > 0) => error # NULL

\* C12: a zero or negative rate means no interest. For a loan whose
\* tasa_interes_ea is <= 0 the monthly rate passed to the schedules is 0, every
\* row of every schedule has interes = 0, the accumulated and the returned
\* total_intereses are 0, and every projection has valor_ahorrado_intereses = 0,
\* whatever the abono; no error is raised on account of the rate.
C12_SinInteres ==
    (llamada = "generar_proyecciones_multiple" /\ datos.tasa_interes_ea <= 0)
    => /\ pc = "tabla" => args.tasa_mensual = 0
       /\ \A k \in 1..Len(tabla) : tabla[k].interes = 0
       /\ total_intereses = 0
       /\ pc \in {"actual", "con_abono"} => resultado.total_intereses = 0
       /\ \A k \in 1..Len(proyecciones) :
             proyecciones[k].valor_ahorrado_intereses = 0
       /\ datos.valor_prestado_inicial # 0 => error = NULL

\* A loan with a negative annual rate whose abono shortens the schedule and
\* saves no interest.
C12_Witness ==
    /\ llamada = "generar_proyecciones_multiple"
    /\ datos.tasa_interes_ea < 0
    /\ pc = "done"
    /\ Len(proyecciones) = 2
    /\ proyecciones[2].abono_adicional > 0
    /\ proyecciones[2].cuotas_reducidas > 0
    /\ proyecciones[2].cuotas_nuevas > 1
    /\ proyecciones[2].valor_ahorrado_intereses = 0

\* C15 as stated: generar_proyecciones_multiple returns one projection per
\* abono, in the order of the list, nothing reordered or dropped; projection k
\* has numero_opcion = k and abono_adicional = abonos[k], and is named
\* "Opcion k" (the caller has no way to give a name of its own).
C15_Original ==
    llamada = "generar_proyecciones_multiple"
    => /\ Len(proyecciones) <= Len(abonos)
       /\ pc = "done" => Len(proyecciones) = Len(abonos)
       /\ \A k \in 1..Len(proyecciones) :
             /\ proyecciones[k].numero_opcion = k
             /\ proyecciones[k].abono_adicional = abonos[k]
             /\ proyecciones[k].nombre_opcion = "Opcion " \o ToString(k)

\* C15 as amended: the same, except for the names: the first five
\* projections are named "1a Eleccion" to "5a Eleccion" and only from the
\* sixth on "Opcion k".
C15_Amended ==
    llamada = "generar_proyecciones_multiple"
    => /\ Len(proyecciones) <= Len(abonos)
       /\ pc = "done" => Len(proyecciones) = Len(abonos)
       /\ \A k \in 1..Len(proyecciones) :
             /\ proyecciones[k].numero_opcion = k
             /\ proyecciones[k].abono_adicional = abonos[k]
             /\ proyecciones[k].nombre_opcion =
                   IF k <= 5 THEN ToString(k) \o "a Eleccion"
                   ELSE "Opcion " \o ToString(k)

\* A returned list of seven projections with repeated abonos, out of order.
C15_Witness ==
    /\ llamada = "generar_proyecciones_multiple"
    /\ pc = "done"
    /\ Len(proyecciones) = 7
    /\ proyecciones[2].abono_adicional > proyecciones[4].abono_adicional
    /\ proyecciones[2].abono_adicional = proyecciones[3].abono_adicional
    /\ proyecciones[5].nombre_opcion = "5a Eleccion"
    /\ proyecciones[7].nombre_opcion = "Opcion 7"

\* The computed fields of a projection: all but numero_opcion and
\* nombre_opcion.
Calculado(p) ==
    [ f \in CamposProyeccion \ {"numero_opcion", "nombre_opcion"} |-> p[f] ]

EsIngresoMinimo(ingreso, cuota) ==
    /\ ingreso % PRECISION_DINERO = 0
    /\ 3 * ingreso - 10 * cuota <= 15
    /\ 3 * ingreso - 10 * cuota >= 0 - 15

\* C20 as stated: every projection has nuevo_valor_cuota = valor_cuota_actual
\* + abono exactly, whatever the schedules gave, and ingreso_minimo_requerido
\* = nuevo_valor_cuota / 0.30 rounded to two decimals, as every direct call of
\* calcular_ingreso_minimo returns; and for a positive installment the income
\* is strictly greater than the installment.
C20_Original ==
    /\ \A k \in 1..Len(proyecciones) :
          LET q == proyecciones[k]
          IN  /\ q.nuevo_valor_cuota = datos.valor_cuota_actual + q.abono_adicional
              /\ EsIngresoMinimo(q.ingreso_minimo_requerido, q.nuevo_valor_cuota)
              /\ q.nuevo_valor_cuota > 0
                    => q.ingreso_minimo_requerido > q.nuevo_valor_cuota
    /\ (llamada = "calcular_ingreso_minimo" /\ pc = "done")
       => /\ EsIngresoMinimo(devuelto, argumentos.cuota_mensual)
          /\ argumentos.cuota_mensual > 0 => devuelto > argumentos.cuota_mensual

\* C20 as amended: the same, the income being strictly greater than the
\* installment for an installment of at least 0.002; an installment of 0.001
\* has a required income of 0.00.
C20_Amended ==
    /\ \A k \in 1..Len(proyecciones) :
          LET q == proyecciones[k]
          IN  /\ q.nuevo_valor_cuota = datos.valor_cuota_actual + q.abono_adicional
              /\ EsIngresoMinimo(q.ingreso_minimo_requerido, q.nuevo_valor_cuota)
              /\ q.nuevo_valor_cuota >= 2
                    => q.ingreso_minimo_requerido > q.nuevo_valor_cuota
              /\ q.nuevo_valor_cuota = 1 => q.ingreso_minimo_requerido = 0
    /\ (llamada = "calcular_ingreso_minimo" /\ pc = "done")
       => /\ EsIngresoMinimo(devuelto, argumentos.cuota_mensual)
          /\ argumentos.cuota_mensual >= 2 => devuelto > argumentos.cuota_mensual
          /\ argumentos.cuota_mensual = 1 => devuelto = 0

\* A projection whose schedule hit the cap and one with an abono that pays
\* the loan off: the new installment is the sum in both, and the income
\* exceeds it.
C20_Witness ==
    /\ llamada = "generar_proyecciones_multiple"
    /\ pc = "done"
    /\ Len(proyecciones) = 2
    /\ proyecciones[1].cuotas_nuevas = max_cuotas
    /\ proyecciones[1].nuevo_valor_cuota > 0
    /\ proyecciones[2].abono_adicional > 0
    /\ proyecciones[2].cuotas_nuevas < max_cuotas
    /\ proyecciones[2].nuevo_valor_cuota > proyecciones[1].nuevo_valor_cuota
    /\ proyecciones[2].ingreso_minimo_requerido > 3 * proyecciones[2].nuevo_valor_cuota

\* The monthly rate calcular_proyeccion uses for the loan of the call.
TasaMensualDelCredito == tasa_ea_a_mensual(datos.tasa_interes_ea)

\* C22 as stated: every projection with an abono > 0 has cuotas_reducidas > 0
\* and valor_ahorrado_intereses > 0, the schedule with the abono having
\* strictly fewer installments and strictly less interest than the one
\* without.
C22_Original ==
    \A k \in 1..Len(proyecciones) :
        proyecciones[k].abono_adicional > 0
        => /\ proyecciones[k].cuotas_reducidas > 0
           /\ proyecciones[k].valor_ahorrado_intereses > 0

\* C22 amended: with an abono > 0 the schedule has no more installments and
\* no more interest than the schedule without abono, and neither
\* inequality is strict in general: at a monthly rate of 0 no interest is
\* saved whatever the abono, and a loan whose schedule without abono has at
\* most one installment saves no installment.
C22_Amended ==
    \A k \in 1..Len(proyecciones) :
        LET p == proyecciones[k]
        IN  p.abono_adicional > 0
            => /\ p.cuotas_reducidas >= 0
               /\ p.valor_ahorrado_intereses >= 0
               /\ TasaMensualDelCredito = 0 => p.valor_ahorrado_intereses = 0
               /\ p.cuotas_nuevas + p.cuotas_reducidas <= 1 => p.cuotas_reducidas = 0

\* A loan that bears interest and takes several installments: the abono
\* removes installments and saves interest.
C22_Witness ==
    /\ llamada = "generar_proyecciones_multiple"
    /\ pc = "done"
    /\ TasaMensualDelCredito > 0
    /\ \E k \in 1..Len(proyecciones) :
           /\ proyecciones[k].abono_adicional > 0
           /\ proyecciones[k].cuotas_nuevas >= 2
           /\ proyecciones[k].cuotas_reducidas > 0
           /\ proyecciones[k].valor_ahorrado_intereses > 0

\* t is the TiempoAhorro of n months: months from 0 to 11, and the years
\* and months add up to n.
EsTiempoDe(t, n) ==
    /\ t.meses >= 0
    /\ t.meses <= 11
    /\ total_meses(t) = n

\* C23: the years and months of every month count the engine produces
\* (the installments left and the installments saved of every projection)
\* have months between 0 and 11 and give the count back: anios * 12 + meses
\* is the count.
C23_TiempoAhorro ==
    \A k \in 1..Len(proyecciones) :
        /\ EsTiempoDe(proyecciones[k].tiempo_restante, proyecciones[k].cuotas_nuevas)
        /\ EsTiempoDe(proyecciones[k].tiempo_ahorrado, proyecciones[k].cuotas_reducidas)

\* A projection that saves whole years and some months more, and one that
\* stays at the cap of the schedule.
C23_Witness ==
    /\ llamada = "generar_proyecciones_multiple"
    /\ pc = "done"
    /\ \E j, k \in 1..Len(proyecciones) :
           /\ proyecciones[k].cuotas_reducidas > 12
           /\ proyecciones[k].tiempo_ahorrado.anios > 0
           /\ proyecciones[k].tiempo_ahorrado.meses > 0
           /\ proyecciones[k].tiempo_restante.anios = 0
           /\ proyecciones[k].tiempo_restante.meses > 0
           /\ proyecciones[j].cuotas_nuevas = max_cuotas
           /\ proyecciones[j].tiempo_restante.meses = 0

\* d2 is d1 with another remaining term.
SoloDifierePlazo(d1, d2) ==
    /\ d1.cuotas_pendientes # d2.cuotas_pendientes
    /\ [ d1 EXCEPT !.cuotas_pendientes = d2.cuotas_pendientes ] = d2

\* C24: the remaining term of the statement is ignored. Every projection of
\* a loan is the projection that any loan differing from it only in
\* cuotas_pendientes gets for the same abono.
C24_PlazoIgnorado ==
    (llamada = "generar_proyecciones_multiple" /\ datos \in CreditosPlazo)
    => \A d2 \in CreditosPlazo :
           SoloDifierePlazo(datos, d2)
           => \A k \in 1..Len(proyecciones) :
                  proyecciones[k] =
                      ProyeccionSecuencial(d2, [ abono_extra   |-> abonos[k],
                                                 numero_opcion |-> k,
                                                 nombre_opcion |-> NombreOpcion(k - 1) ])

\* A loan stated to have 240 installments left whose schedule without abono
\* has 3: the projection with an abono saves one of the 3, and the
\* installments saved and left do not add up to the stated term.
C24_Witness ==
    /\ llamada = "generar_proyecciones_multiple"
    /\ pc = "done"
    /\ datos \in CreditosPlazo
    /\ datos.cuotas_pendientes = 240
    /\ \E k \in 1..Len(proyecciones) :
           /\ proyecciones[k].abono_adicional > 0
           /\ proyecciones[k].cuotas_reducidas > 0
           /\ proyecciones[k].cuotas_nuevas + proyecciones[k].cuotas_reducidas = 3
           /\ proyecciones[k].cuotas_nuevas + proyecciones[k].cuotas_reducidas
                 # datos.cuotas_pendientes

(***************************************************************************)
(* Properties of the direct calls (checked under SpecDirecta)              *)
(***************************************************************************)

\* c is x = num / den (den > 0, x > 0) rounded to two decimals half-up: a
\* whole number of centavos with c - 0.005 <= x < c + 0.005.
EsMitadArriba(c, num, den) ==
    /\ c % PRECISION_DINERO = 0
    /\ den * (c - 5) <= num
    /\ num < den * (c + 5)

\* C13 as stated: calcular_cuota_fija returns 0 when capital <= 0 or
\* num_cuotas <= 0; otherwise, for a rate <= 0, capital / num_cuotas, and for
\* a rate > 0 the formula; and in both of these branches the value is rounded
\* to two decimals half-up.
C13_CuotaFija ==
    (llamada = "calcular_cuota_fija" /\ pc = "done")
    => LET a == argumentos
       IN  /\ (a.capital <= 0 \/ a.num_cuotas <= 0) => devuelto = 0
           /\ (a.capital > 0 /\ a.num_cuotas > 0 /\ a.tasa_mensual <= 0)
                 => EsMitadArriba(devuelto, a.capital, a.num_cuotas)
           /\ (a.capital > 0 /\ a.num_cuotas > 0 /\ a.tasa_mensual > 0)
                 => EsMitadArriba(devuelto,
                                  CuotaNum(a.capital, a.tasa_mensual, a.num_cuotas),
                                  CuotaDen(a.tasa_mensual, a.num_cuotas))

\* calcular_resumen_credito has returned its ResumenCredito.
ResumenRetornado == llamada = "calcular_resumen_credito" /\ pc = "done"

\* C17 as stated: the inflation block is populated only for a loan in UVR.
\* For sistema_amortizacion = "UVR" ajuste_inflacion_pesos = saldo_capital -
\* valor_prestado_inicial and porcentaje_ajuste is that difference as a
\* fraction of valor_prestado_inicial (to four decimals); for "PESOS" the
\* block is left unpopulated: both figures carry no value.
C17_SoloUVR ==
    ResumenRetornado
    => LET d == argumentos.datos
           ajuste == d.saldo_capital - d.valor_prestado_inicial
           desvio == 10000 * ajuste - devuelto.porcentaje_ajuste * d.valor_prestado_inicial
       IN  /\ d.sistema_amortizacion = "UVR"
                 => /\ devuelto.ajuste_inflacion_pesos = ajuste
                    /\ d.valor_prestado_inicial > 0
                          => /\ 2 * desvio <= d.valor_prestado_inicial
                             /\ 2 * desvio >= 0 - d.valor_prestado_inicial
           /\ d.sistema_amortizacion = "PESOS"
                 => /\ devuelto.ajuste_inflacion_pesos = 0
                    /\ devuelto.porcentaje_ajuste = 0

\* C18: the arithmetic of the summary. total_pagado_fecha =
\* valor_cuota_actual x cuotas_pagadas, total_frech_recibido = beneficio_frech
\* x cuotas_pagadas, monto_real_pagado_banco is their sum, cuotas_por_pagar =
\* cuotas_pactadas - cuotas_pagadas, and total_intereses_seguros is
\* monto_real_pagado_banco - (valor_prestado_inicial - saldo_capital) or 0,
\* whichever is larger, so never negative.
C18_Resumen ==
    ResumenRetornado
    => LET d == argumentos.datos
           r == devuelto
           costo == r.monto_real_pagado_banco
                      - (d.valor_prestado_inicial - d.saldo_capital)
       IN  /\ r.total_pagado_fecha = d.valor_cuota_actual * argumentos.cuotas_pagadas
           /\ r.total_frech_recibido = d.beneficio_frech * argumentos.cuotas_pagadas
           /\ r.monto_real_pagado_banco = r.total_pagado_fecha + r.total_frech_recibido
           /\ r.cuotas_por_pagar = argumentos.cuotas_pactadas - argumentos.cuotas_pagadas
           /\ r.total_intereses_seguros >= 0
           /\ r.total_intereses_seguros >= costo
           /\ r.total_intereses_seguros \in {0, costo}

\* A loan with subsidy that has paid less than the principal it amortized:
\* the cost estimate is floored at 0.
C18_Witness ==
    /\ ResumenRetornado
    /\ argumentos.cuotas_pagadas > 0
    /\ argumentos.datos.beneficio_frech > 0
    /\ devuelto.total_frech_recibido > 0
    /\ devuelto.monto_real_pagado_banco
          < argumentos.datos.valor_prestado_inicial - argumentos.datos.saldo_capital
    /\ devuelto.total_intereses_seguros = 0

\* Both conversions have returned for the annual rate of the call.
TasaConvertida == llamada = "tasa_ea_a_mensual" /\ pc = "done"

\* C21: for every annual rate from 0 to 0.30, tasa_mensual_a_ea of
\* tasa_ea_a_mensual of the rate differs from the rate by less than 0.0001
\* (100 millionths), both conversions rounding to 6 decimal places.
C21_IdaYVuelta ==
    (TasaConvertida /\ argumentos.tasa_ea >= 0 /\ argumentos.tasa_ea <= 300000)
        => /\ devuelto.tasa_ea - argumentos.tasa_ea < 100
           /\ argumentos.tasa_ea - devuelto.tasa_ea < 100

\* A rate close to 30 % has gone through both conversions, the monthly rate
\* is a real twelfth root (not a twelfth of the rate) and the rounding shows
\* in the rate that comes back.
C21_Witness ==
    /\ TasaConvertida
    /\ argumentos.tasa_ea >= 250000
    /\ argumentos.tasa_ea <= 300000
    /\ devuelto.tasa_mensual > 0
    /\ 12 * devuelto.tasa_mensual < argumentos.tasa_ea - 10000
    /\ devuelto.tasa_ea # argumentos.tasa_ea

(***************************************************************************)
(* Properties of concurrent calls (checked under SpecConcurrente)          *)
(***************************************************************************)

\* C19: calls of generar_tabla_amortizacion, calcular_proyeccion,
\* generar_proyecciones_multiple and calcular_resumen_credito on one shared
\* CalculadoraFinanciera and one shared DatosCredito, interleaved in any
\* order at any step, return what the same calls return when run one after
\* another, and no step of any of them changes the DatosCredito or the
\* state of the calculator.
C19_UsoConcurrente ==
    /\ [](llamada = "concurrente" =>
             \A h \in Hilos :
                 hilos[h].pc = "done" =>
                     hilos[h].devuelto = ResultadoSecuencial(datos, hilos[h]))
    /\ [][llamada = "concurrente" =>
             datos' = datos /\ calculadora' = calculadora]_vars

\* Every thread has returned, each took steps while another call was
\* running, and two of them ran different methods with loops.
C19_Witness ==
    /\ llamada = "concurrente"
    /\ \A h \in Hilos : hilos[h].pc = "done" /\ hilos[h].solapado
    /\ \E g, h \in Hilos :
           /\ hilos[g].metodo = "generar_proyecciones_multiple"
           /\ hilos[h].metodo = "generar_tabla_amortizacion"
           /\ Len(hilos[g].devuelto) > 0
           /\ Len(hilos[h].devuelto.tabla) > 1

(***************************************************************************)
(* Properties of the analysis service (checked under SpecServicio)         *)
(***************************************************************************)

\* The last call made on the analysis was this operation.
UltimaLlamada(operacion) ==
    /\ llamada = "servicio"
    /\ historia.operacion = operacion

\* The analysis may be projected: its status and its five required fields.
PuertaDeProyeccion(a) ==
    /\ a.status \in { "EXTRACTED", "VALIDATED", "NAME_MISMATCH" }
    /\ \A c \in { "saldo_capital_pesos", "valor_cuota_con_seguros",
                   "cuotas_pendientes", "tasa_interes_cobrada_ea",
                   "valor_prestado_inicial" } : a.campos[c] # SinValor

\* The ids of the rows of a list of proposals.
Ids(p) == { p[i].id : i \in 1..Len(p) }

\* C27: generate_projections creates or deletes proposals only for an
\* analysis whose status is EXTRACTED, VALIDATED or NAME_MISMATCH and whose
\* five required fields are present; in any other case it returns
\* success = false and leaves the status and the proposals as they were; a
\* successful call replaces all earlier proposals by one new row per option,
\* moves EXTRACTED to VALIDATED and leaves VALIDATED and NAME_MISMATCH.
C27_PuertaDeProyecciones ==
    [][ (historia'.llamadas = historia.llamadas + 1
            /\ historia'.operacion = "generate_projections")
        => LET opciones == historia'.entrada.opciones
           IN  /\ ~PuertaDeProyeccion(analisis) => ~respuesta'.success
               /\ ~respuesta'.success =>
                     /\ analisis' = analisis
                     /\ propuestas' = propuestas
               /\ respuesta'.success =>
                     /\ PuertaDeProyeccion(analisis)
                     /\ Len(propuestas') = Len(opciones)
                     /\ Ids(propuestas') \cap Ids(propuestas) = {}
                     /\ \A i \in 1..Len(opciones) :
                           /\ propuestas'[i].numero_opcion = opciones[i].numero_opcion
                           /\ propuestas'[i].abono_adicional_mensual
                                 = opciones[i].abono_adicional_mensual
                           /\ ~propuestas'[i].es_opcion_seleccionada
                     /\ respuesta'.propuestas = propuestas'
                     /\ analisis'.status =
                           IF analisis.status = "EXTRACTED" THEN "VALIDATED"
                           ELSE analisis.status
                     /\ analisis'.campos = analisis.campos ]_vars

\* A second successful generation: the two rows of the first are gone, the
\* analysis that was EXTRACTED is VALIDATED.
C27_Witness ==
    /\ UltimaLlamada("generate_projections")
    /\ respuesta.success
    /\ historia.status_inicial = "EXTRACTED"
    /\ historia.creadas = 3
    /\ Len(propuestas) = 1
    /\ propuestas[1].id = 3
    /\ analisis.status = "VALIDATED"

\* C28: a field listed in campos_extraidos_ia keeps, through every call of
\* update_manual_fields, the value it had before the calls; a call on an
\* analysis whose status is outside PENDING_MANUAL, EXTRACTED, NAME_MISMATCH
\* and ID_MISMATCH returns INVALID_STATUS and changes no field.
C28_ExtraidosDeSoloLectura ==
    [][ (historia'.llamadas = historia.llamadas + 1
            /\ historia'.operacion = "update_manual_fields")
        => /\ analisis'.campos_extraidos_ia = analisis.campos_extraidos_ia
           /\ \A c \in analisis.campos_extraidos_ia :
                 /\ analisis'.campos[c] = analisis.campos[c]
                 /\ analisis'.campos[c] = historia.iniciales[c]
           /\ (/\ historia'.entrada.usuario_id = analisis.usuario_id
               /\ analisis.status \notin { "PENDING_MANUAL", "EXTRACTED",
                                           "NAME_MISMATCH", "ID_MISMATCH" })
              => /\ ~respuesta'.success
                 /\ respuesta'.error_code = "INVALID_STATUS"
                 /\ analisis' = analisis ]_vars

\* A successful call that gave values for an extracted field and for a field
\* the extraction left empty: the second was written, the first was not.
C28_Witness ==
    /\ UltimaLlamada("update_manual_fields")
    /\ respuesta.success
    /\ \E c \in historia.entrada.campos \cap analisis.campos_extraidos_ia :
          /\ analisis.campos[c] = historia.iniciales[c]
          /\ analisis.campos[c] # ValorManual(c)
    /\ \E c \in historia.entrada.campos \ analisis.campos_extraidos_ia :
          /\ historia.iniciales[c] = SinValor
          /\ analisis.campos[c] = ValorManual(c)

\* C29: after successful calls of update_manual_fields, campos_manuales is
\* exactly the set of the field names that the calls accepted: the names of
\* earlier calls are kept and no other name appears.
C29_CamposManualesAcumulan ==
    llamada = "servicio" => analisis.campos_manuales = historia.aceptados

\* The proposals of the analysis that are marked as selected.
Marcadas(p) == { i \in 1..Len(p) : p[i].es_opcion_seleccionada }

\* C30: after calls of select_opcion at most one proposal of the analysis
\* has es_opcion_seleccionada, and when the last call named an option number
\* that exists, a proposal of that number is the selected one.
C30_SeleccionUnica ==
    (/\ UltimaLlamada("select_opcion")
     /\ historia.entrada.usuario_id = analisis.usuario_id)
    => /\ Cardinality(Marcadas(propuestas)) <= 1
       /\ ConNumero(propuestas, historia.entrada.numero_opcion) # {}
          => /\ Marcadas(propuestas) # {}
             /\ Marcadas(propuestas)
                   \subseteq ConNumero(propuestas, historia.entrada.numero_opcion)

====
